---- MODULE Spec2Model ----
(***************************************************************************)
(* Model of the Discogs collection manager core:                           *)
(*   - DatabaseManager (src/src/core/database_manager.py): the normalised  *)
(*     SQLite store, release ingestion, the query composer and the         *)
(*     paginated read;                                                     *)
(*   - DiscogsConn (src/src/core/discogs_conn.py): sort-name resolution.   *)
(* Strings are TLA+ strings; whenever the code looks inside a string       *)
(* (strip, LIKE, the article regex) the model works on its characters,     *)
(* given by the table Chars.                                               *)
(***************************************************************************)
EXTENDS Integers, Sequences, FiniteSets, TLC

(***************************************************************************)
(* Bounds of the exploration.                                              *)
(***************************************************************************)
MaxIngests == 2
MaxClock == 2
\* The largest number of artists of a store sort names are resolved in.
MaxArtists == 21
\* The largest number of rows every order of which is explored.
MaxShuffled == 3
\* The largest number of start_refresh calls.
MaxRefreshes == 2
\* The largest number of items of the remote collection.
MaxFetched == 1

(***************************************************************************)
(* Values.                                                                 *)
(***************************************************************************)
\* SQL NULL / Python None in a text column.
NULL == "<NULL>"
\* SQL NULL / Python None in an integer column (real ids start at 1).
NULLID == 0
\* DatabaseManager.BLANKS_LABEL
BLANKS_LABEL == "[Blanks]"

Range(seq) == {seq[i] : i \in 1..Len(seq)}

(***************************************************************************)
(* Strings and their characters.                                           *)
(***************************************************************************)
Chars ==
  [s \in {"", " ", "x", " x ", "y", "One", "Two", "one", "1999", "2001",
          "Radiohead", "The Beatles", "Theatre", " la Femme", "A\tHa",
          "LOS Lobos", "Air", "Beatles, The", "Rock", "Jazz", "Dub", "Warp", "XL", "c1", "c2",
          "LP", "CD", "o", "ra", "zz", "id", "title", "year", "artist",
          "date_added", "bogus", "custom_1", "custom_2", "custom_",
          "custom_custom_1", "custom_1custom_"} |->
     CASE s = "" -> <<>>
       [] s = " " -> <<" ">>
       [] s = "x" -> <<"x">>
       [] s = " x " -> <<" ", "x", " ">>
       [] s = "y" -> <<"y">>
       [] s = "One" -> <<"O", "n", "e">>
       [] s = "Two" -> <<"T", "w", "o">>
       [] s = "one" -> <<"o", "n", "e">>
       [] s = "1999" -> <<"1", "9", "9", "9">>
       [] s = "2001" -> <<"2", "0", "0", "1">>
       [] s = "Radiohead" -> <<"R", "a", "d", "i", "o", "h", "e", "a", "d">>
       [] s = "The Beatles" ->
            <<"T", "h", "e", " ", "B", "e", "a", "t", "l", "e", "s">>
       [] s = "Theatre" -> <<"T", "h", "e", "a", "t", "r", "e">>
       [] s = " la Femme" -> <<" ", "l", "a", " ", "F", "e", "m", "m", "e">>
       [] s = "A\tHa" -> <<"A", "\t", "H", "a">>
       [] s = "LOS Lobos" -> <<"L", "O", "S", " ", "L", "o", "b", "o", "s">>
       [] s = "Air" -> <<"A", "i", "r">>
       [] s = "Beatles, The" ->
            <<"B", "e", "a", "t", "l", "e", "s", ",", " ", "T", "h", "e">>
       [] s = "Rock" -> <<"R", "o", "c", "k">>
       [] s = "Jazz" -> <<"J", "a", "z", "z">>
       [] s = "Dub" -> <<"D", "u", "b">>
       [] s = "Warp" -> <<"W", "a", "r", "p">>
       [] s = "XL" -> <<"X", "L">>
       [] s = "c1" -> <<"c", "1">>
       [] s = "c2" -> <<"c", "2">>
       [] s = "LP" -> <<"L", "P">>
       [] s = "CD" -> <<"C", "D">>
       [] s = "o" -> <<"o">>
       [] s = "ra" -> <<"r", "a">>
       [] s = "zz" -> <<"z", "z">>
       [] s = "id" -> <<"i", "d">>
       [] s = "title" -> <<"t", "i", "t", "l", "e">>
       [] s = "year" -> <<"y", "e", "a", "r">>
       [] s = "artist" -> <<"a", "r", "t", "i", "s", "t">>
       [] s = "date_added" ->
            <<"d", "a", "t", "e", "_", "a", "d", "d", "e", "d">>
       [] s = "bogus" -> <<"b", "o", "g", "u", "s">>
       [] s = "custom_1" -> <<"c", "u", "s", "t", "o", "m", "_", "1">>
       [] s = "custom_2" -> <<"c", "u", "s", "t", "o", "m", "_", "2">>
       [] s = "custom_" -> <<"c", "u", "s", "t", "o", "m", "_">>
       [] s = "custom_custom_1" ->
            <<"c", "u", "s", "t", "o", "m", "_",
              "c", "u", "s", "t", "o", "m", "_", "1">>
       [] s = "custom_1custom_" ->
            <<"c", "u", "s", "t", "o", "m", "_", "1",
              "c", "u", "s", "t", "o", "m", "_">>]

\* The string whose characters are cs.
Str(cs) == CHOOSE s \in DOMAIN Chars : Chars[s] = cs

UpperLetters == <<"A", "B", "C", "D", "E", "F", "G", "H", "I", "J", "K", "L", "M",
                  "N", "O", "P", "Q", "R", "S", "T", "U", "V", "W", "X", "Y", "Z">>
LowerLetters == <<"a", "b", "c", "d", "e", "f", "g", "h", "i", "j", "k", "l", "m",
                  "n", "o", "p", "q", "r", "s", "t", "u", "v", "w", "x", "y", "z">>

\* Case folding of one character (SQLite LIKE / NOCASE, re.IGNORECASE).
LowerChar(c) ==
  IF \E i \in 1..26 : UpperLetters[i] = c
  THEN LowerLetters[CHOOSE i \in 1..26 : UpperLetters[i] = c]
  ELSE c

LowerSeq(cs) == [i \in 1..Len(cs) |-> LowerChar(cs[i])]

\* Characters matched by \s and removed by str.strip().
IsSpace(c) == c \in {" ", "\t", "\n", "\r"}

\* str.strip(): drop leading and trailing whitespace.
Strip(s) ==
  LET cs == Chars[s]
      keep == {i \in 1..Len(cs) : ~IsSpace(cs[i])}
  IN IF keep = {} THEN ""
     ELSE LET lo == CHOOSE i \in keep : \A j \in keep : i <= j
              hi == CHOOSE i \in keep : \A j \in keep : j <= i
          IN Str(SubSeq(cs, lo, hi))

\* cs[i..] starts with pre.
StartsWithAt(cs, i, pre) ==
  /\ i + Len(pre) - 1 <= Len(cs)
  /\ \A k \in 1..Len(pre) : cs[i + k - 1] = pre[k]

\* str.replace(pat, ""): cs[i..] without the occurrences of pat.
RECURSIVE RemoveAll(_, _, _)
RemoveAll(cs, i, pat) ==
  IF i > Len(cs) THEN <<>>
  ELSE IF StartsWithAt(cs, i, pat) THEN RemoveAll(cs, i + Len(pat), pat)
  ELSE <<cs[i]>> \o RemoveAll(cs, i + 1, pat)

Digits == <<"0", "1", "2", "3", "4", "5", "6", "7", "8", "9">>

\* str.isdigit()
IsDigit(cs) == Len(cs) > 0 /\ \A i \in 1..Len(cs) : cs[i] \in Range(Digits)

\* b occurs in a.
Contains(a, b) == \E i \in 1..(Len(a) - Len(b) + 1) : StartsWithAt(a, i, b)

\* The characters in code order, for the comparison of texts.
Alphabet ==
  <<"\t", " ", "%", ",">> \o Digits \o UpperLetters \o <<"[", "]", "_">>
    \o LowerLetters

Code(c) == CHOOSE i \in 1..Len(Alphabet) : Alphabet[i] = c

\* SQL TRIM(X): removes spaces (only) from both ends.
SqlTrim(s) ==
  LET cs == Chars[s]
      keep == {i \in 1..Len(cs) : cs[i] # " "}
  IN IF keep = {} THEN ""
     ELSE LET lo == CHOOSE i \in keep : \A j \in keep : i <= j
              hi == CHOOSE i \in keep : \A j \in keep : j <= i
          IN Str(SubSeq(cs, lo, hi))

(***************************************************************************)
(* Generic helpers.                                                        *)
(***************************************************************************)
\* dict.get(key, default)
Get(d, key, default) == IF key \in DOMAIN d THEN d[key] ELSE default

\* f with the row for key k inserted or replaced.
Upsert(f, k, v) == [x \in (DOMAIN f) \cup {k} |-> IF x = k THEN v ELSE f[x]]

(***************************************************************************)
(* The store.  One record, db, holds the tables of table_schema.txt and    *)
(* the custom_field_<id> tables:                                           *)
(*   releases        id -> row                                             *)
(*   artists         id -> [name, sort_name]                               *)
(*   genres, styles, labels   sequence of names, the id is the position    *)
(*   release_artists, release_genres, release_styles, release_labels       *)
(*                   sequences of rows, in insertion order                 *)
(*   custom          field id -> (release id -> field_value)               *)
(*   schema          do the tables of table_schema.txt exist in the file   *)
(***************************************************************************)
VARIABLES
  db,           \* the SQLite database file
  custom_ids,   \* DatabaseManager.custom_ids
  clock,        \* CURRENT_TIMESTAMP of the database
  n_ingests,    \* number of save_release_to_db calls made so far
  last_ingest,  \* the last save_release_to_db call and its outcome
  latest,       \* release id -> payload of its last completed ingestion
                \* into the present database file
  page_request, \* the PaginatedReleaseRequest the caller issues
  last_page,    \* the outcome of the get_releases_paginated call made in
                \* the current state of the store, if any
  resolver,     \* the class that resolves sort names: "DiscogsConn"
                \* (src/src/core) or "DiscogsManager" (src/backend.py)
  thorough_name_fetch,  \* the thorough option the user has set
  remote,       \* release id -> what the remote catalogue answers for it
  sort_pass,    \* position of fetch_artist_sort_names in its loop
  outcome,      \* artist id -> what _determine_sort_name did for it
  lookups,      \* the release ids looked up remotely, in order
  events,       \* what the current (or the last) fetch_artist_sort_names
                \* call did, in order: start, resolved, progress, commit,
                \* raise, return
  refresh_flag, \* DiscogsSorterGui.refresh_flag
  pat,          \* the manager's personal access token, NULL for None
  client,       \* the manager holds a discogs client
  user,         \* the manager holds the identity of the user
  syncs,        \* the start_refresh coroutines that are past their first
                \* await and have not ended: stage, output_list of
                \* fetch_collection, the store when fetch_collection began
  refresh_calls,  \* how each start_refresh call so far began: "started",
                  \* "ignored" or "raised"
  last_sync     \* how the last start_refresh coroutine that ended did so

EmptyDb ==
  [releases |-> <<>>, artists |-> <<>>,
   genres |-> <<>>, styles |-> <<>>, labels |-> <<>>,
   release_artists |-> <<>>, release_genres |-> <<>>,
   release_styles |-> <<>>, release_labels |-> <<>>,
   custom |-> <<>>, schema |-> TRUE]

\* The database after delete_database: the file is gone, and the file the
\* next connection creates has no tables.
NoFile == [EmptyDb EXCEPT !.schema = FALSE]

\* table_schema.txt: releases.date_added defaults to the time of the insert.
DefaultDateAdded(now) == now

\* table_schema.txt: release_artists has the composite key
\* (release_id, artist_id).
ReleaseArtistsKey(row) == <<row.release_id, row.artist_id>>

(***************************************************************************)
(* Ingestion.                                                              *)
(***************************************************************************)
\* _insert_lookup: find-or-insert a name, returns [table, id].
InsertLookup(table, value) ==
  IF value = "" \/ value = NULL
  THEN [table |-> table, id |-> NULLID]
  ELSE IF \E i \in 1..Len(table) : table[i] = value
       THEN [table |-> table,
             id |-> CHOOSE i \in 1..Len(table) : table[i] = value]
       ELSE [table |-> Append(table, value), id |-> Len(table) + 1]

\* Does building the parameter tuple of the INSERT raise?  formats missing
\* gives {}[0] (KeyError), an empty list gives [][0] (IndexError).
FormatsRaise(basic_info) == Len(Get(basic_info, "formats", <<>>)) = 0

\* The row _save_release_to_release_db inserts: the parameters of the
\* INSERT, and date_added by its default.
ReleaseRow(basic_info, rel_id, now) ==
  [master_id |-> Get(basic_info, "master_id", 0),
   title |-> Get(basic_info, "title", ""),
   year |-> Get(basic_info, "year", ""),
   thumb_url |-> Get(basic_info, "thumb", ""),
   release_url |-> <<"https://www.discogs.com/release/", rel_id>>,
   format |-> Get(basic_info["formats"][1], "name", ""),
   date_added |-> DefaultDateAdded(now)]

\* A faulty variant: INSERT OR IGNORE, the row of a release that is in the
\* table is kept.
SaveReleaseToReleaseDbOrIgnore(d, basic_info, now) ==
  LET rel_id == Get(basic_info, "id", NULLID) IN
  IF rel_id = NULLID THEN [db |-> d, raised |-> FALSE]
  ELSE IF FormatsRaise(basic_info) THEN [db |-> d, raised |-> TRUE]
  ELSE IF ~d.schema THEN [db |-> d, raised |-> TRUE]
  ELSE IF rel_id \in DOMAIN d.releases THEN [db |-> d, raised |-> FALSE]
  ELSE [db |-> [d EXCEPT !.releases =
                  Upsert(@, rel_id, ReleaseRow(basic_info, rel_id, now))],
        raised |-> FALSE]

\* _save_release_to_release_db: INSERT OR REPLACE of the releases row.
SaveReleaseToReleaseDb(d, basic_info, now) ==
  LET rel_id == Get(basic_info, "id", NULLID) IN
  IF rel_id = NULLID THEN [db |-> d, raised |-> FALSE]
  ELSE IF FormatsRaise(basic_info) THEN [db |-> d, raised |-> TRUE]
  \* sqlite3.OperationalError: no such table: releases
  ELSE IF ~d.schema THEN [db |-> d, raised |-> TRUE]
  ELSE [db |-> [d EXCEPT !.releases =
                  Upsert(@, rel_id, ReleaseRow(basic_info, rel_id, now))],
        raised |-> FALSE]

\* A faulty variant: every artist of the list is marked primary.
IsPrimaryAlways(i) == 1

\* is_primary of the i-th artist of the list (enumerate starts at 0, the
\* model's sequences at 1).
IsPrimary(i) == IF i = 1 THEN 1 ELSE 0

\* A faulty variant: INSERT OR REPLACE INTO artists (id, name).
InsertOrReplaceArtist(artists, a_id, a_name) ==
  Upsert(artists, a_id, [name |-> a_name, sort_name |-> NULL])

\* "INSERT OR IGNORE INTO artists (id, name) VALUES (?, ?)": nothing is done
\* when a row with the id exists.
InsertOrIgnoreArtist(artists, a_id, a_name) ==
  IF a_id \in DOMAIN artists THEN artists
  ELSE Upsert(artists, a_id, [name |-> a_name, sort_name |-> NULL])

\* The loop of _save_artist_to_artist_db over artists[i..], on the pair
\* [artists, release_artists].
RECURSIVE SaveArtistLoop(_, _, _, _)
SaveArtistLoop(t, rel_id, list, i) ==
  IF i > Len(list) THEN t
  ELSE
    LET a_id == Get(list[i], "id", NULLID)
        a_name == Get(list[i], "name", NULL)
        row == [release_id |-> rel_id, artist_id |-> a_id,
                is_primary |-> IsPrimary(i)]
        arts == InsertOrIgnoreArtist(t.artists, a_id, a_name)
        \* INSERT OR IGNORE INTO release_artists
        ras == IF \E j \in 1..Len(t.release_artists) :
                    ReleaseArtistsKey(t.release_artists[j])
                      = ReleaseArtistsKey(row)
               THEN t.release_artists
               ELSE Append(t.release_artists, row)
    IN SaveArtistLoop([artists |-> arts, release_artists |-> ras],
                      rel_id, list, i + 1)

\* _save_artist_to_artist_db
SaveArtistToArtistDb(d, basic_info) ==
  LET rel_id == Get(basic_info, "id", NULLID) IN
  IF rel_id = NULLID THEN d
  ELSE
    LET cleared == SelectSeq(d.release_artists,
                             LAMBDA r : r.release_id # rel_id)
        t == SaveArtistLoop([artists |-> d.artists,
                             release_artists |-> cleared],
                            rel_id, Get(basic_info, "artists", <<>>), 1)
    IN [d EXCEPT !.artists = t.artists,
                 !.release_artists = t.release_artists]

\* One "for name in list: id = _insert_lookup(...); INSERT INTO join" loop of
\* _save_style_genre_label_to_dbs, on the pair [lookup, joins].
RECURSIVE SaveLookupLoop(_, _, _, _, _)
SaveLookupLoop(t, rel_id, list, i, idcol) ==
  IF i > Len(list) THEN t
  ELSE
    LET r == InsertLookup(t.lookup, list[i])
        row == (idcol :> r.id) @@ [release_id |-> rel_id]
    IN SaveLookupLoop([lookup |-> r.table, joins |-> Append(t.joins, row)],
                      rel_id, list, i + 1, idcol)

\* The labels loop of _save_style_genre_label_to_dbs.
RECURSIVE SaveLabelLoop(_, _, _, _)
SaveLabelLoop(t, rel_id, list, i) ==
  IF i > Len(list) THEN t
  ELSE
    LET l_name == Get(list[i], "name", NULL)
        l_cat == Get(list[i], "catno", NULL)
        r == InsertLookup(t.lookup, l_name)
        row == [release_id |-> rel_id, label_id |-> r.id, catno |-> l_cat]
    IN SaveLabelLoop([lookup |-> r.table, joins |-> Append(t.joins, row)],
                     rel_id, list, i + 1)

\* A faulty variant: the rows of the release are not deleted.
NotOfReleaseKeepAll(rel_id, rows) == rows

\* "DELETE FROM release_genres WHERE release_id = ?", and the same for
\* release_styles and release_labels: the rows of the other releases.
NotOfRelease(rel_id, rows) == SelectSeq(rows, LAMBDA r : r.release_id # rel_id)

\* _save_style_genre_label_to_dbs
SaveStyleGenreLabelToDbs(d, basic_info) ==
  LET rel_id == Get(basic_info, "id", NULLID) IN
  IF rel_id = NULLID THEN d
  ELSE
    LET g == SaveLookupLoop([lookup |-> d.genres,
                             joins |-> NotOfRelease(rel_id, d.release_genres)],
                            rel_id, Get(basic_info, "genres", <<>>), 1,
                            "genre_id")
        s == SaveLookupLoop([lookup |-> d.styles,
                             joins |-> NotOfRelease(rel_id, d.release_styles)],
                            rel_id, Get(basic_info, "styles", <<>>), 1,
                            "style_id")
        l == SaveLabelLoop([lookup |-> d.labels,
                            joins |-> NotOfRelease(rel_id, d.release_labels)],
                           rel_id, Get(basic_info, "labels", <<>>), 1)
    IN [d EXCEPT !.genres = g.lookup, !.release_genres = g.joins,
                 !.styles = s.lookup, !.release_styles = s.joins,
                 !.labels = l.lookup, !.release_labels = l.joins]

\* create_custom_field_db: CREATE TABLE IF NOT EXISTS custom_field_<id>.
CreateCustomFieldDb(custom, field_id) ==
  IF field_id \in DOMAIN custom THEN custom
  ELSE Upsert(custom, field_id, <<>>)

\* A faulty variant: INSERT OR IGNORE, the value the release has is kept.
RECURSIVE SaveNotesLoopOrIgnore(_, _, _, _)
SaveNotesLoopOrIgnore(custom, rel_id, notes, i) ==
  IF i > Len(notes) THEN custom
  ELSE
    LET field_id == notes[i].field_id
        value == Strip(Get(notes[i], "value", ""))
        made == CreateCustomFieldDb(custom, field_id)
    IN SaveNotesLoopOrIgnore(
         IF rel_id \in DOMAIN made[field_id] THEN made
         ELSE [made EXCEPT ![field_id] = Upsert(@, rel_id, value)],
         rel_id, notes, i + 1)

\* The two loops of _save_custom_notes_to_dbs over notes[i..]: table
\* creation and INSERT OR REPLACE of (release_id, stripped value).
RECURSIVE SaveNotesLoop(_, _, _, _)
SaveNotesLoop(custom, rel_id, notes, i) ==
  IF i > Len(notes) THEN custom
  ELSE
    LET field_id == notes[i].field_id
        value == Strip(Get(notes[i], "value", ""))
        made == CreateCustomFieldDb(custom, field_id)
    IN SaveNotesLoop([made EXCEPT ![field_id] = Upsert(@, rel_id, value)],
                     rel_id, notes, i + 1)

\* A faulty variant: the notes are saved whether the payload has an id or not.
SaveCustomNotesToDbsNoIdCheck(d, basic_info, has_notes, notes) ==
  IF ~has_notes THEN d
  ELSE [d EXCEPT !.custom = SaveNotesLoop(@, Get(basic_info, "id", NULLID),
                                          notes, 1)]

\* _save_custom_notes_to_dbs; has_notes is "notes is not None".
SaveCustomNotesToDbs(d, basic_info, has_notes, notes) ==
  LET rel_id == Get(basic_info, "id", NULLID) IN
  IF rel_id = NULLID \/ ~has_notes THEN d
  ELSE [d EXCEPT !.custom = SaveNotesLoop(@, rel_id, notes, 1)]

\* save_release_to_db: the four steps in order; an exception in the first
\* step ends the call.
SaveReleaseToDb(d, basic_info, has_notes, notes, now) ==
  LET s1 == SaveReleaseToReleaseDb(d, basic_info, now) IN
  IF s1.raised THEN s1
  ELSE [db |-> SaveCustomNotesToDbs(
                 SaveStyleGenreLabelToDbs(
                   SaveArtistToArtistDb(s1.db, basic_info), basic_info),
                 basic_info, has_notes, notes),
        raised |-> FALSE]

(***************************************************************************)
(* Query composer.  A WHERE clause is a sequence of conditions, each with  *)
(* the number of "?" placeholders it holds; the parameters are a separate  *)
(* sequence that the engine binds to the placeholders by position.         *)
(***************************************************************************)
\* f"%{search_query}%"
LikePattern(term) == <<"%", term, "%">>

\* "if values:" on a request field that may be None (absent) or a list.
Truthy(req, key) == key \in DOMAIN req /\ Len(req[key]) > 0

\* _build_in_condition: "<column> IN (?, ..., ?)".
BuildInCondition(column, req, key, acc) ==
  IF Truthy(req, key)
  THEN [conditions |-> Append(acc.conditions,
                              [kind |-> "in", column |-> column,
                               placeholders |-> Len(req[key])]),
        params |-> acc.params \o req[key]]
  ELSE acc

\* A faulty variant: only the first id of the list is asked for.
BuildSubqueryInConditionFirstOnly(table, column, req, key, acc) ==
  IF Truthy(req, key)
  THEN [conditions |-> Append(acc.conditions,
                              [kind |-> "subquery", table |-> table,
                               column |-> column, placeholders |-> 1]),
        params |-> Append(acc.params, req[key][1])]
  ELSE acc

\* _build_subquery_in_condition:
\* "r.id IN (SELECT release_id FROM <table> WHERE <column> IN (?, ..., ?))".
BuildSubqueryInCondition(table, column, req, key, acc) ==
  IF Truthy(req, key)
  THEN [conditions |-> Append(acc.conditions,
                              [kind |-> "subquery", table |-> table,
                               column |-> column,
                               placeholders |-> Len(req[key])]),
        params |-> acc.params \o req[key]]
  ELSE acc

\* A faulty variant: every value of the filter is bound, [Blanks] included.
HandleCustomFieldFilterBindAll(field_id, values, acc) ==
  IF Len(values) = 0 THEN acc
  ELSE
    LET filtered_values == SelectSeq(values, LAMBDA v : v # BLANKS_LABEL)
        is_blanks_selected == \E i \in 1..Len(values) : values[i] = BLANKS_LABEL
    IN [conditions |-> Append(acc.conditions,
                              [kind |-> "custom", field_id |-> field_id,
                               blanks |-> is_blanks_selected,
                               placeholders |-> Len(filtered_values)]),
        params |-> acc.params \o values]

\* _handle_custom_field_filter:
\* "(<blanks condition> OR cf<id>.field_value IN (?, ..., ?))".
HandleCustomFieldFilter(field_id, values, acc) ==
  IF Len(values) = 0 THEN acc
  ELSE
    LET filtered_values == SelectSeq(values, LAMBDA v : v # BLANKS_LABEL)
        is_blanks_selected == \E i \in 1..Len(values) : values[i] = BLANKS_LABEL
    IN [conditions |-> Append(acc.conditions,
                              [kind |-> "custom", field_id |-> field_id,
                               blanks |-> is_blanks_selected,
                               placeholders |-> Len(filtered_values)]),
        params |-> acc.params \o filtered_values]

\* The loop over custom_field_filters.items() in _build_where_clause; the
\* dict is a sequence of [field_id, values] in insertion order.
RECURSIVE CustomFieldFilters(_, _, _)
CustomFieldFilters(filters, i, acc) ==
  IF i > Len(filters) THEN acc
  ELSE CustomFieldFilters(filters, i + 1,
         HandleCustomFieldFilter(filters[i].field_id, filters[i].values, acc))

SearchColumns == <<"r.title", "r.year", "a.name", "l.name", "rl.catno", "s.name">>

\* _build_where_clause: the conditions (joined by AND) and their parameters.
BuildWhereClause(req) ==
  LET a0 == [conditions |-> <<>>, params |-> <<>>]
      a1 == IF req.search_query # ""
            THEN [conditions |-> <<[kind |-> "search",
                                    columns |-> SearchColumns,
                                    placeholders |-> 6]>>,
                  params |-> [i \in 1..6 |-> LikePattern(req.search_query)]]
            ELSE a0
      a2 == BuildInCondition("a.id", req, "artist_ids", a1)
      a3 == BuildSubqueryInCondition("release_genres", "genre_id", req,
                                     "genre_ids", a2)
      a4 == BuildSubqueryInCondition("release_styles", "style_id", req,
                                     "style_ids", a3)
      a5 == BuildSubqueryInCondition("release_labels", "label_id", req,
                                     "label_ids", a4)
      a6 == BuildInCondition("r.format", req, "formats", a5)
      a7 == IF Truthy(req, "custom_field_filters")
            THEN CustomFieldFilters(req.custom_field_filters, 1, a6)
            ELSE a6
  IN IF Len(a7.conditions) = 0
     THEN [where_sql |-> <<>>, search_params |-> <<>>]
     ELSE [where_sql |-> a7.conditions, search_params |-> a7.params]

\* A set of integers as the ascending sequence of its elements.
RECURSIVE Ascending(_)
Ascending(S) ==
  IF S = {} THEN <<>>
  ELSE LET m == CHOOSE x \in S : \A y \in S : x <= y
       IN <<m>> \o Ascending(S \ {m})

\* _build_custom_field_joins: for every known custom field the SELECT part
\* "cf<id>.field_value AS custom_<id>" and the LEFT JOIN of custom_field_<id>
\* under the alias cf<id>.
BuildCustomFieldJoins(ids) ==
  LET order == Ascending(ids) IN
  [custom_select |-> [i \in 1..Len(order) |->
                        [column |-> "cf" \o ToString(order[i]) \o ".field_value",
                         as |-> "custom_" \o ToString(order[i]),
                         field_id |-> order[i]]],
   custom_join |-> [i \in 1..Len(order) |->
                      [table |-> "custom_field_" \o ToString(order[i]),
                       alias |-> "cf" \o ToString(order[i])]]]

J(table, alias) == [table |-> table, alias |-> alias]

\* A faulty variant: the joined rows are counted, not the releases.
CountQueryCountStar(where_sql, ids) ==
  [select |-> "COUNT(*)",
   custom_select |-> <<>>,
   joins |-> <<J("release_artists", "ra"), J("artists", "a"),
               J("release_labels", "rl"), J("labels", "l"),
               J("release_genres", "gs"), J("genres", "g"),
               J("release_styles", "rs"), J("styles", "s")>>
               \o BuildCustomFieldJoins(ids).custom_join,
   where_sql |-> where_sql,
   group_by |-> "",
   order_by |-> [kind |-> "none"],
   limit_offset |-> FALSE]

\* The query text of _get_filtered_count.
CountQuery(where_sql, ids) ==
  [select |-> "COUNT(DISTINCT r.id)",
   custom_select |-> <<>>,
   joins |-> <<J("release_artists", "ra"), J("artists", "a"),
               J("release_labels", "rl"), J("labels", "l"),
               J("release_genres", "gs"), J("genres", "g"),
               J("release_styles", "rs"), J("styles", "s")>>
               \o BuildCustomFieldJoins(ids).custom_join,
   where_sql |-> where_sql,
   group_by |-> "",
   order_by |-> [kind |-> "none"],
   limit_offset |-> FALSE]

\* A faulty variant: the styles tables are not joined.
BuildMainQueryNoStyles(where_sql, order_clause, ids) ==
  [select |-> "rows",
   custom_select |-> BuildCustomFieldJoins(ids).custom_select,
   joins |-> <<J("release_artists", "ra"), J("artists", "a"),
               J("release_labels", "rl"), J("release_genres", "gs"),
               J("genres", "g"), J("labels", "l")>>
               \o BuildCustomFieldJoins(ids).custom_join,
   where_sql |-> where_sql,
   group_by |-> "r.id",
   order_by |-> order_clause,
   limit_offset |-> TRUE]

\* _build_main_query
BuildMainQuery(where_sql, order_clause, ids) ==
  [select |-> "rows",
   custom_select |-> BuildCustomFieldJoins(ids).custom_select,
   joins |-> <<J("release_artists", "ra"), J("artists", "a"),
               J("release_labels", "rl"), J("release_genres", "gs"),
               J("genres", "g"), J("labels", "l"),
               J("release_styles", "rs"), J("styles", "s")>>
               \o BuildCustomFieldJoins(ids).custom_join,
   where_sql |-> where_sql,
   group_by |-> "r.id",
   order_by |-> order_clause,
   limit_offset |-> TRUE]

\* A faulty variant: page_size = 0 is not taken as "fetch all".
GetPaginationLimitsIgnoreAll(page_size, total_rows, offset) ==
  <<page_size, offset>>

\* _get_pagination_limits
GetPaginationLimits(page_size, total_rows, offset) ==
  IF page_size = 0 THEN <<total_rows, 0>> ELSE <<page_size, offset>>

\* _build_order_clause
BuildOrderClause(sort_by, desc) ==
  LET order_dir == IF desc THEN "DESC" ELSE "ASC"
      cs == Chars[sort_by]
      pre == Chars["custom_1"]
      custom_ == SubSeq(pre, 1, Len(pre) - 1)
  IN IF StartsWithAt(cs, 1, custom_) /\ IsDigit(RemoveAll(cs, 1, custom_))
     THEN [kind |-> "custom", column |-> sort_by, nocase |-> TRUE,
           dir |-> order_dir]
     ELSE
       LET allowed == {"title", "year", "date_added", "id", "artist"}
           col == IF sort_by \notin allowed THEN "date_added" ELSE sort_by
       IN IF col = "artist"
          THEN [kind |-> "artist",
                column |-> "COALESCE(a.sort_name, a.name)",
                nocase |-> TRUE, dir |-> order_dir]
          ELSE [kind |-> "column", column |-> col, nocase |-> FALSE,
                dir |-> order_dir]

(***************************************************************************)
(* The SQL engine: evaluation of the composed queries on the store.        *)
(* A joined row is [r, ra, rl, gs, rs]: a release id and, for each joined  *)
(* junction table, the position of the matching row, 0 when the LEFT JOIN  *)
(* found none (or the table is not joined).                                *)
(***************************************************************************)
Matching(rows, rel_id) == {i \in 1..Len(rows) : rows[i].release_id = rel_id}

Dim(rows, rel_id, joined) ==
  IF joined /\ Matching(rows, rel_id) # {} THEN Matching(rows, rel_id)
  ELSE {0}

Aliases(joins) == {joins[i].alias : i \in 1..Len(joins)}

JoinedRows(d, joins) ==
  UNION { { [r |-> r, ra |-> i, rl |-> j, gs |-> k, rs |-> m] :
              i \in Dim(d.release_artists, r, "ra" \in Aliases(joins)),
              j \in Dim(d.release_labels, r, "rl" \in Aliases(joins)),
              k \in Dim(d.release_genres, r, "gs" \in Aliases(joins)),
              m \in Dim(d.release_styles, r, "rs" \in Aliases(joins)) } :
          r \in DOMAIN d.releases }

\* The id of the artists row joined to the row, NULLID if there is none.
ArtistOf(d, row) ==
  IF row.ra = 0 THEN NULLID
  ELSE IF d.release_artists[row.ra].artist_id \in DOMAIN d.artists
       THEN d.release_artists[row.ra].artist_id
       ELSE NULLID

LookupName(table, id) == IF id \in 1..Len(table) THEN table[id] ELSE NULL

\* The value of a column of the joined row.
Col(d, row, column) ==
  CASE column = "r.id" -> row.r
    [] column = "r.title" -> d.releases[row.r].title
    [] column = "r.year" -> d.releases[row.r].year
    [] column = "r.format" -> d.releases[row.r].format
    [] column = "a.id" -> ArtistOf(d, row)
    [] column = "a.name" ->
         IF ArtistOf(d, row) = NULLID THEN NULL
         ELSE d.artists[ArtistOf(d, row)].name
    [] column = "l.name" ->
         IF row.rl = 0 THEN NULL
         ELSE LookupName(d.labels, d.release_labels[row.rl].label_id)
    [] column = "rl.catno" ->
         IF row.rl = 0 THEN NULL ELSE d.release_labels[row.rl].catno
    [] column = "g.name" ->
         IF row.gs = 0 THEN NULL
         ELSE LookupName(d.genres, d.release_genres[row.gs].genre_id)
    [] column = "s.name" ->
         IF row.rs = 0 THEN NULL
         ELSE LookupName(d.styles, d.release_styles[row.rs].style_id)

\* The alias a column belongs to.
AliasOf(column) ==
  CASE column \in {"r.id", "r.title", "r.year", "r.format"} -> "r"
    [] column \in {"a.id", "a.name"} -> "a"
    [] column = "l.name" -> "l"
    [] column = "rl.catno" -> "rl"
    [] column = "g.name" -> "g"
    [] column = "s.name" -> "s"

IsNullCol(column, v) ==
  IF column \in {"r.id", "a.id"} THEN v = NULLID ELSE v = NULL

\* value LIKE pattern, case-insensitive, for a pattern %term%.
Like(value, pattern) ==
  /\ value # NULL
  /\ pattern[1] = "%" /\ pattern[3] = "%"
  /\ Contains(LowerSeq(Chars[value]), LowerSeq(Chars[pattern[2]]))

\* The field_value of the custom_field_<id> row joined to the row; has is
\* FALSE when the LEFT JOIN found none.
CustomRow(d, field_id, rel_id) ==
  IF field_id \in DOMAIN d.custom /\ rel_id \in DOMAIN d.custom[field_id]
  THEN [has |-> TRUE, field_value |-> d.custom[field_id][rel_id]]
  ELSE [has |-> FALSE, field_value |-> NULL]

\* One condition of the WHERE clause on one joined row, ps being the
\* parameters bound to its placeholders.
CondHolds(d, cond, ps, row) ==
  CASE cond.kind = "search" ->
         \E k \in 1..Len(cond.columns) :
           Like(Col(d, row, cond.columns[k]), ps[k])
    [] cond.kind = "in" ->
         /\ ~IsNullCol(cond.column, Col(d, row, cond.column))
         /\ Col(d, row, cond.column) \in Range(ps)
    [] cond.kind = "subquery" ->
         \E i \in 1..Len(d[cond.table]) :
           /\ d[cond.table][i].release_id = row.r
           /\ d[cond.table][i][cond.column] # NULLID
           /\ d[cond.table][i][cond.column] \in Range(ps)
    [] cond.kind = "custom" ->
         LET cf == CustomRow(d, cond.field_id, row.r) IN
         \/ /\ cond.blanks
            /\ \/ ~cf.has
               \/ cf.field_value = NULL
               \/ SqlTrim(cf.field_value) = ""
         \/ /\ cond.placeholders > 0
            /\ cf.has
            /\ cf.field_value # NULL
            /\ cf.field_value \in Range(ps)

\* The conjunction of conditions[i..] on a joined row; the parameters are
\* bound by position, used of them being bound already.
RECURSIVE WhereHolds(_, _, _, _, _, _)
WhereHolds(d, conditions, params, i, used, row) ==
  IF i > Len(conditions) THEN TRUE
  ELSE /\ CondHolds(d, conditions[i],
                    SubSeq(params, used + 1, used + conditions[i].placeholders),
                    row)
       /\ WhereHolds(d, conditions, params, i + 1,
                     used + conditions[i].placeholders, row)

RECURSIVE Placeholders(_, _)
Placeholders(conditions, i) ==
  IF i > Len(conditions) THEN 0
  ELSE conditions[i].placeholders + Placeholders(conditions, i + 1)

\* The aliases the conditions refer to.
Referenced(conditions) ==
  UNION { CASE conditions[i].kind = "search" ->
                 {AliasOf(conditions[i].columns[k]) :
                    k \in 1..Len(conditions[i].columns)}
            [] conditions[i].kind = "in" -> {AliasOf(conditions[i].column)}
            [] conditions[i].kind = "subquery" -> {"r"}
            [] conditions[i].kind = "custom" ->
                 {"cf" \o ToString(conditions[i].field_id)}
          : i \in 1..Len(conditions) }

\* The tables of the database file.
Tables(d) ==
  (IF d.schema
   THEN {"releases", "artists", "genres", "styles", "labels",
         "release_artists", "release_genres", "release_styles",
         "release_labels"}
   ELSE {})
    \cup {"custom_field_" \o ToString(f) : f \in DOMAIN d.custom}

\* Does the engine reject the statement (sqlite3.OperationalError for an
\* unknown table or column, ProgrammingError for a wrong number of bindings)?
QueryRaises(d, query, params) ==
  \/ "releases" \notin Tables(d)
  \/ \E i \in 1..Len(query.joins) : query.joins[i].table \notin Tables(d)
  \/ ~(Referenced(query.where_sql) \subseteq Aliases(query.joins) \cup {"r"})
  \/ /\ query.order_by.kind = "custom"
     /\ \A i \in 1..Len(query.custom_select) :
          query.custom_select[i].as # query.order_by.column
  \/ /\ query.order_by.kind = "artist"
     /\ "a" \notin Aliases(query.joins)
  \/ Len(params) # Placeholders(query.where_sql, 1)
                     + (IF query.limit_offset THEN 2 ELSE 0)

\* The joined rows that pass the WHERE clause.
FilteredRows(d, query, params) ==
  {row \in JoinedRows(d, query.joins) :
     WhereHolds(d, query.where_sql, params, 1, 0, row)}

\* SELECT COUNT(DISTINCT r.id) ... counts the releases of the rows that
\* pass, SELECT COUNT(*) ... the rows.
ExecuteCount(d, query, params) ==
  IF query.select = "COUNT(DISTINCT r.id)"
  THEN Cardinality({row.r : row \in FilteredRows(d, query, params)})
  ELSE Cardinality(FilteredRows(d, query, params))

\* The key a text is ordered by: NULL first, then by character codes.
TextKey(s, nocase) ==
  IF s = NULL THEN <<0>>
  ELSE <<2>> \o [i \in 1..Len(Chars[s]) |->
                   Code(IF nocase THEN LowerChar(Chars[s][i])
                        ELSE Chars[s][i])]

NumKey(n) == <<1, n>>

\* a sorts strictly before b (comparison of keys).
KeyLess(a, b) ==
  \E k \in 1..(Len(a) + 1) :
    /\ k <= Len(b)
    /\ \A j \in 1..(k - 1) : j <= Len(a) /\ a[j] = b[j]
    /\ (k = Len(a) + 1 \/ a[k] < b[k])

\* The ORDER BY key of the group of release r; pick[r] is the release_artists
\* row (its position, 0 for none) of the joined row of the group that the
\* engine takes the bare (non-aggregated) columns a.sort_name, a.name from.
OrderKey(d, order, r, pick) ==
  CASE order.kind = "column" ->
         IF order.column \in {"id", "date_added"}
         THEN NumKey(IF order.column = "id" THEN r
                     ELSE d.releases[r].date_added)
         ELSE TextKey(d.releases[r][order.column], order.nocase)
    [] order.kind = "artist" ->
         LET a == ArtistOf(d, [ra |-> pick[r]]) IN
         IF a = NULLID THEN TextKey(NULL, TRUE)
         ELSE TextKey(IF d.artists[a].sort_name # NULL
                      THEN d.artists[a].sort_name ELSE d.artists[a].name,
                      order.nocase)
    [] order.kind = "custom" ->
         TextKey(CustomRow(d, CHOOSE f \in DOMAIN d.custom :
                                "custom_" \o ToString(f) = order.column,
                           r).field_value,
                 order.nocase)

\* The groups in the order of the ORDER BY clause; groups with equal keys
\* stay in the order GROUP BY r.id produces them, ascending id.
Ordered(d, groups, order, pick) ==
  LET before(q, r) ==
        \/ IF order.dir = "ASC"
           THEN KeyLess(OrderKey(d, order, q, pick), OrderKey(d, order, r, pick))
           ELSE KeyLess(OrderKey(d, order, r, pick), OrderKey(d, order, q, pick))
        \/ /\ OrderKey(d, order, q, pick) = OrderKey(d, order, r, pick)
           /\ q < r
      rank(r) == 1 + Cardinality({q \in groups : before(q, r)})
  IN [i \in 1..Cardinality(groups) |->
        CHOOSE r \in groups : rank(r) = i]

NonNull(S) == S \ {NULL}

\* One row of the result: the columns of the release and the aggregates
\* GROUP_CONCAT(DISTINCT ...) over the rows of its group, as sets of names.
ResultRow(d, query, r, rows) ==
  [id |-> r,
   custom |-> [i \in 1..Len(query.custom_select) |->
                 [as |-> query.custom_select[i].as,
                  value |-> CustomRow(d, query.custom_select[i].field_id,
                                      r).field_value]],
   title |-> d.releases[r].title,
   year |-> d.releases[r].year,
   format |-> d.releases[r].format,
   release_url |-> d.releases[r].release_url,
   thumb_url |-> d.releases[r].thumb_url,
   artist_name |-> NonNull({Col(d, row, "a.name") : row \in rows}),
   label_name |-> NonNull({Col(d, row, "l.name") : row \in rows}),
   genres |-> NonNull({Col(d, row, "g.name") : row \in rows}),
   style_name |-> NonNull({Col(d, row, "s.name") : row \in rows})]

\* LIMIT limit OFFSET offset on a sequence of rows.
LimitOffset(rows, limit, offset) ==
  SubSeq(rows, offset + 1,
         IF offset + limit < Len(rows) THEN offset + limit ELSE Len(rows))

\* The main query: filter, GROUP BY r.id, ORDER BY, LIMIT ? OFFSET ?, the
\* last two parameters being the limit and the offset.
ExecuteMain(d, query, params, pick) ==
  LET filtered == FilteredRows(d, query, SubSeq(params, 1, Len(params) - 2))
      groups == {row.r : row \in filtered}
      ordered == Ordered(d, groups, query.order_by, pick)
      all == [i \in 1..Len(ordered) |->
                ResultRow(d, query, ordered[i],
                          {row \in filtered : row.r = ordered[i]})]
  IN [ordered |-> all,
      rows |-> LimitOffset(all, params[Len(params) - 1], params[Len(params)])]

\* get_releases_paginated
GetReleasesPaginated(d, ids, request, pick) ==
  LET order_clause == BuildOrderClause(request.sort_by, request.desc)
      w == BuildWhereClause(request)
      offset == request.page * request.page_size
      count_query == CountQuery(w.where_sql, ids)
      query == BuildMainQuery(w.where_sql, order_clause, ids)
      \* the exception leaves the call before anything is returned
      quiet == [kind |-> "page", raised |-> TRUE, request |-> request,
                count_query |-> count_query, count_params |-> w.search_params]
  IN IF QueryRaises(d, count_query, w.search_params) THEN quiet
     ELSE
       LET total_rows == ExecuteCount(d, count_query, w.search_params)
           lim == GetPaginationLimits(request.page_size, total_rows, offset)
           full_params == w.search_params \o lim
       IN IF QueryRaises(d, query, full_params)
          THEN quiet @@ [query |-> query, full_params |-> full_params]
          ELSE
            LET res == ExecuteMain(d, query, full_params, pick) IN
            [kind |-> "page", raised |-> FALSE, request |-> request,
             count_query |-> count_query, count_params |-> w.search_params,
             query |-> query, full_params |-> full_params,
             rows |-> res.rows, total_rows |-> total_rows,
             ordered |-> res.ordered]

(***************************************************************************)
(* Release payloads ("basic_information" of a collection item) and notes.  *)
(* A key that is absent from the dict is absent from the record's domain.  *)
(***************************************************************************)
Radiohead == [id |-> 1, name |-> "Radiohead"]
Beatles == [id |-> 2, name |-> "The Beatles"]
\* The artist with id 1 under another name.
Renamed == [id |-> 1, name |-> "Air"]

LP == <<[name |-> "LP"]>>
CD == <<[name |-> "CD"]>>

\* Payload bodies: everything but the id.
BodyOne ==
  [title |-> "One", year |-> "1999", master_id |-> 7, thumb |-> "x",
   artists |-> <<Radiohead, Beatles>>, genres |-> <<"Rock", "Jazz">>,
   styles |-> <<"Dub">>,
   labels |-> <<[name |-> "Warp", catno |-> "c1"],
                [name |-> "Warp", catno |-> "c2"]>>,
   formats |-> LP]

BodyTwo ==
  [title |-> "Two", year |-> "2001", master_id |-> 7, thumb |-> "x",
   artists |-> <<Beatles, Renamed>>, genres |-> <<"Jazz">>,
   styles |-> <<>>, labels |-> <<[name |-> "XL", catno |-> "c1"]>>,
   formats |-> CD]

\* No artists, genres, styles or labels key at all.
BodyBare == [title |-> "one", year |-> "1999", formats |-> LP]

\* The same artist listed twice.
BodyTwice ==
  [title |-> "Two", year |-> "2001", master_id |-> 7, thumb |-> "x",
   artists |-> <<Radiohead, Radiohead>>, genres |-> <<"Rock">>,
   styles |-> <<"Dub", "Jazz">>,
   labels |-> <<[name |-> "XL", catno |-> "c2"],
                [name |-> "Warp", catno |-> "c1"]>>,
   formats |-> LP]

Bodies == {BodyOne, BodyTwo, BodyBare, BodyTwice}

WithId(body, id) == [k \in (DOMAIN body) \cup {"id"} |->
                       IF k = "id" THEN id ELSE body[k]]

Without(body, key) == [k \in (DOMAIN body) \ {key} |-> body[k]]

ReleaseIds == {1, 2}

\* The payloads save_release_to_db is called with: well-formed ones, one
\* without an id, one with id 0, and two without a usable formats entry.
Payloads ==
  {WithId(b, i) : b \in Bodies, i \in ReleaseIds}
    \cup {BodyTwo, WithId(BodyTwo, 0)}
    \cup {WithId(Without(BodyTwo, "formats"), 1),
          WithId([BodyTwo EXCEPT !.formats = <<>>], 2)}

\* The notes of a collection item: None, or a list of (field_id, value).
NoteLists ==
  { <<>>,
    <<[field_id |-> 1, value |-> " x "]>>,
    <<[field_id |-> 1, value |-> " "], [field_id |-> 2, value |-> "y"]>> }

(***************************************************************************)
(* State machine.                                                          *)
(***************************************************************************)
NoCall == [kind |-> "none"]

\* PaginatedReleaseRequest(): the defaults of the dataclass.
DefaultRequest ==
  [page |-> 0, page_size |-> 10, sort_by |-> "artist", desc |-> TRUE,
   search_query |-> ""]

guiVars ==
  <<refresh_flag, pat, client, user, syncs, refresh_calls, last_sync>>

\* The interface as constructed, without a token, and never used.
GuiIdle ==
  /\ refresh_flag = FALSE
  /\ pat = NULL
  /\ client = FALSE
  /\ user = FALSE
  /\ syncs = <<>>
  /\ refresh_calls = <<>>
  /\ last_sync = NoCall

sortVars ==
  <<resolver, thorough_name_fetch, remote, sort_pass, outcome, lookups, events>>

\* No sort-name resolution is going on, and none has been asked for.
SortIdle ==
  /\ resolver = "DiscogsConn"
  /\ thorough_name_fetch = FALSE
  /\ remote = <<>>
  /\ sort_pass = NoCall
  /\ outcome = <<>>
  /\ lookups = <<>>
  /\ events = <<>>

InitStore ==
  /\ SortIdle
  /\ GuiIdle
  /\ db = EmptyDb
  /\ custom_ids = {}
  /\ clock = 0
  /\ n_ingests = 0
  /\ last_ingest = NoCall
  /\ latest = <<>>
  /\ last_page = NoCall
  /\ page_request = DefaultRequest

\* One save_release_to_db(conn, basic_info, notes) call, as made by
\* add_releases_to_db for each fetched item.
Ingest(basic_info, has_notes, notes) ==
  /\ n_ingests < MaxIngests
  /\ LET res == SaveReleaseToDb(db, basic_info, has_notes, notes, clock)
         rel_id == Get(basic_info, "id", NULLID)
     IN /\ db' = res.db
        /\ last_ingest' = [kind |-> "ingest", basic_info |-> basic_info,
                           has_notes |-> has_notes, notes |-> notes,
                           raised |-> res.raised]
        /\ latest' = IF res.raised \/ rel_id = NULLID THEN latest
                     ELSE Upsert(latest, rel_id, basic_info)
  /\ n_ingests' = n_ingests + 1
  /\ last_page' = NoCall
  /\ UNCHANGED <<custom_ids, clock, page_request, sortVars>>
  /\ UNCHANGED guiVars

\* Time passes between two statements.
Tick ==
  /\ clock < MaxClock
  /\ clock' = clock + 1
  /\ UNCHANGED <<db, custom_ids, n_ingests, last_ingest, latest, page_request,
                 last_page, sortVars>>
  /\ UNCHANGED guiVars

\* DatabaseManager.__init__ at program start: init_db creates the tables
\* that are missing, _load_custom_field_ids_from_db reads the
\* custom_field_<id> tables of the database file.
Restart ==
  /\ db' = [db EXCEPT !.schema = TRUE]
  /\ custom_ids' = DOMAIN db.custom
  /\ last_page' = NoCall
  /\ UNCHANGED <<clock, n_ingests, last_ingest, latest, page_request,
                 sortVars>>
  /\ UNCHANGED guiVars

\* delete_database, between two syncs: the database file is removed; what
\* the object holds in memory stays.
DeleteDatabase ==
  /\ sort_pass = NoCall
  /\ last_ingest.kind # "running"
  /\ db' = NoFile
  /\ latest' = <<>>
  /\ last_page' = NoCall
  /\ UNCHANGED <<custom_ids, clock, n_ingests, last_ingest, page_request,
                 sortVars>>
  /\ UNCHANGED guiVars

IngestAny ==
  \E p \in Payloads :
    \/ Ingest(p, FALSE, <<>>)
    \/ \E n \in NoteLists : Ingest(p, TRUE, n)

vars ==
  <<db, custom_ids, clock, n_ingests, last_ingest, latest, page_request,
    last_page, resolver, thorough_name_fetch, remote, sort_pass, outcome,
    lookups, events, refresh_flag, pat, client, user, syncs, refresh_calls,
    last_sync>>

Next ==
  \/ IngestAny
  \/ Tick

Spec == InitStore /\ [][Next]_vars

(***************************************************************************)
(* Reading: ingestion of a few collection items, program restarts and      *)
(* get_releases_paginated calls.                                           *)
(***************************************************************************)
\* The collection items of the reading scenario: payload and notes.
QueryItems ==
  { [basic_info |-> WithId(BodyOne, 1), has_notes |-> TRUE,
     notes |-> <<[field_id |-> 1, value |-> " x "]>>],
    [basic_info |-> WithId(BodyTwo, 2), has_notes |-> FALSE, notes |-> <<>>],
    [basic_info |-> WithId(BodyTwice, 3), has_notes |-> TRUE,
     notes |-> <<[field_id |-> 1, value |-> " "],
                 [field_id |-> 2, value |-> "y"]>>],
    [basic_info |-> WithId(BodyBare, 2), has_notes |-> TRUE, notes |-> <<>>] }

\* The fixed part of a request; the filter groups are added to it.
BaseRequest(page, page_size, sort_by, desc, search_query) ==
  [page |-> page, page_size |-> page_size, sort_by |-> sort_by,
   desc |-> desc, search_query |-> search_query]

\* req with the field key set, or left absent (None) when v is "None".
Opt(key, choices) == {<<>>} \cup {(key :> c) : c \in choices}

\* Requests that vary the filters: every combination of the groups.
FilterRequests ==
  { BaseRequest(0, 0, "id", FALSE, sq) @@ a @@ g @@ o @@ c :
      sq \in {"", "ra"},
      a \in Opt("artist_ids", {<<>>, <<2>>}),
      g \in Opt("genre_ids", {<<1, 2>>}),
      o \in Opt("style_ids", {<<1>>}) \cup Opt("formats", {<<"LP">>})
             \cup {("style_ids" :> <<2>>) @@ ("label_ids" :> <<1, 2>>)},
      c \in Opt("custom_field_filters",
                {<<[field_id |-> 1, values |-> <<BLANKS_LABEL>>]>>,
                 <<[field_id |-> 1, values |-> <<BLANKS_LABEL, "x">>],
                   [field_id |-> 2, values |-> <<"y">>]>>}) }

\* Requests that vary the page, the page size and the order.
PageRequests ==
  { BaseRequest(p, ps, sb, desc, "") :
      p \in 0..2, ps \in 0..2,
      sb \in {"title", "artist", "custom_1", "bogus"},
      desc \in BOOLEAN }

\* The values of sort_by: the columns of the whitelist, custom-field
\* columns, and others.
SortBys ==
  {"title", "year", "date_added", "id", "artist", "custom_1", "custom_2",
   "bogus", "custom_", "custom_custom_1", "custom_1custom_"}

\* Requests that vary the order.
OrderRequests ==
  { BaseRequest(0, 0, sb, desc, "") : sb \in SortBys, desc \in BOOLEAN }

\* Requests that supply every filter group at once, with and without a
\* search text.
FullRequests ==
  { BaseRequest(0, 0, "id", FALSE, sq)
      @@ [artist_ids |-> <<2>>, genre_ids |-> <<1, 2>>, style_ids |-> <<1>>,
          label_ids |-> <<1, 2>>, formats |-> <<"LP">>,
          custom_field_filters |->
            <<[field_id |-> 1, values |-> <<BLANKS_LABEL, "x">>],
              [field_id |-> 2, values |-> <<"y">>]>>] :
      sq \in {"", "o"} }

Requests == FilterRequests \cup PageRequests \cup OrderRequests \cup FullRequests

\* The choices the engine has for the bare columns of the groups.
Picks ==
  IF BuildOrderClause(page_request.sort_by, page_request.desc).kind = "artist"
  THEN {pick \in [DOMAIN db.releases ->
                    0..Len(db.release_artists)] :
          \A r \in DOMAIN db.releases :
            pick[r] \in Dim(db.release_artists, r, TRUE)}
  ELSE {[r \in DOMAIN db.releases |-> 0]}

\* One get_releases_paginated(request) call.  A second call in the same
\* state of the store has the same outcomes and is left out.
GetPage ==
  /\ last_page = NoCall
  /\ \E pick \in Picks :
       last_page' = GetReleasesPaginated(db, custom_ids, page_request, pick)
  /\ UNCHANGED <<db, custom_ids, clock, n_ingests, last_ingest, latest,
                 page_request, sortVars>>
  /\ UNCHANGED guiVars

IngestItem ==
  \E it \in QueryItems : Ingest(it.basic_info, it.has_notes, it.notes)

NextQuery ==
  \/ IngestItem
  \/ Restart
  \/ GetPage

InitQuery ==
  /\ SortIdle
  /\ GuiIdle
  /\ db = EmptyDb
  /\ custom_ids = {}
  /\ clock = 0
  /\ n_ingests = 0
  /\ last_ingest = NoCall
  /\ latest = <<>>
  /\ last_page = NoCall
  /\ page_request \in Requests

SpecQuery == InitQuery /\ [][NextQuery]_vars

(***************************************************************************)
(* Re-ingestion: a sync in a session that starts on the store an earlier   *)
(* session left.                                                           *)
(***************************************************************************)
\* The store after the ingestion of one collection item into an empty one.
PriorStore(it) ==
  SaveReleaseToDb(EmptyDb, it.basic_info, it.has_notes, it.notes, 0).db

InitReingest ==
  /\ SortIdle
  /\ GuiIdle
  /\ \E it \in QueryItems :
       /\ db = PriorStore(it)
       /\ latest = (it.basic_info.id :> it.basic_info)
  /\ custom_ids = DOMAIN db.custom
  /\ clock = 0
  /\ n_ingests = 0
  /\ last_ingest = NoCall
  /\ last_page = NoCall
  /\ page_request = DefaultRequest

NextReingest ==
  \/ IngestItem
  \/ Tick

SpecReingest == InitReingest /\ [][NextReingest]_vars

(***************************************************************************)
(* Ingestion step by step.  Each of the four steps of save_release_to_db   *)
(* ends with conn.commit(), so what a step wrote is in the database file,  *)
(* for every connection to read, before the next step starts.              *)
(***************************************************************************)
\* save_release_to_db up to the commit of its first step,
\* _save_release_to_release_db; an exception there ends the call.
BeginIngest(basic_info, has_notes, notes) ==
  /\ n_ingests < MaxIngests
  /\ last_ingest.kind # "running"
  /\ LET s1 == SaveReleaseToReleaseDb(db, basic_info, clock) IN
     /\ db' = s1.db
     /\ last_ingest' =
          IF s1.raised
          THEN [kind |-> "ingest", basic_info |-> basic_info,
                has_notes |-> has_notes, notes |-> notes, raised |-> TRUE]
          ELSE [kind |-> "running", basic_info |-> basic_info,
                has_notes |-> has_notes, notes |-> notes, done |-> 1,
                before |-> db]
  /\ n_ingests' = n_ingests + 1
  /\ last_page' = NoCall
  /\ UNCHANGED <<custom_ids, clock, latest, page_request, sortVars>>
  /\ UNCHANGED guiVars

\* The next step of the running save_release_to_db call, up to its commit:
\* _save_artist_to_artist_db, _save_style_genre_label_to_dbs,
\* _save_custom_notes_to_dbs; the call returns after the last one.
StepIngest ==
  /\ last_ingest.kind = "running"
  /\ LET b == last_ingest.basic_info IN
     /\ db' = CASE last_ingest.done = 1 -> SaveArtistToArtistDb(db, b)
                [] last_ingest.done = 2 -> SaveStyleGenreLabelToDbs(db, b)
                [] last_ingest.done = 3 ->
                     SaveCustomNotesToDbs(db, b, last_ingest.has_notes,
                                          last_ingest.notes)
     /\ last_ingest' =
          IF last_ingest.done < 3
          THEN [last_ingest EXCEPT !.done = @ + 1]
          ELSE [kind |-> "ingest", basic_info |-> b,
                has_notes |-> last_ingest.has_notes,
                notes |-> last_ingest.notes, raised |-> FALSE]
     /\ latest' = IF last_ingest.done < 3 \/ Get(b, "id", NULLID) = NULLID
                  THEN latest
                  ELSE Upsert(latest, b.id, b)
  /\ last_page' = NoCall
  /\ UNCHANGED <<custom_ids, clock, n_ingests, page_request, sortVars>>
  /\ UNCHANGED guiVars

\* The running call does not get to its next step: the program is ended, or
\* the worker fails, between two steps.
Interrupt ==
  /\ last_ingest.kind = "running"
  /\ last_ingest' = [last_ingest EXCEPT !.kind = "interrupted"]
  /\ last_page' = NoCall
  /\ UNCHANGED <<db, custom_ids, clock, n_ingests, latest, page_request,
                 sortVars>>
  /\ UNCHANGED guiVars

BeginIngestItem ==
  \E it \in QueryItems : BeginIngest(it.basic_info, it.has_notes, it.notes)

\* The requests of the reader: everything, by id or by title.
StepRequests ==
  {BaseRequest(0, 0, sb, FALSE, "") : sb \in {"id", "title"}}

InitSteps ==
  /\ SortIdle
  /\ GuiIdle
  /\ db = EmptyDb
  /\ custom_ids = {}
  /\ clock = 0
  /\ n_ingests = 0
  /\ last_ingest = NoCall
  /\ latest = <<>>
  /\ last_page = NoCall
  /\ page_request \in StepRequests

\* The worker ingests step by step while the event loop serves get_page.
NextSteps ==
  \/ BeginIngestItem
  \/ StepIngest
  \/ Interrupt
  \/ GetPage

SpecSteps == InitSteps /\ [][NextSteps]_vars

(***************************************************************************)
(* Sort-name resolution: fetch_artist_sort_names and its helpers, in       *)
(* DiscogsConn and, before it, in DiscogsManager.                          *)
(***************************************************************************)
\* "Batch update every 10" in _process_and_batch_updates.
BatchSize == 10

\* The articles of REGEX_STRING, lower case.
Articles ==
  {<<"t", "h", "e">>, <<"a">>, <<"e", "l">>, <<"l", "a">>, <<"l", "o", "s">>,
   <<"l", "a", "s">>, <<"u", "n">>, <<"u", "n", "a">>, <<"l", "e">>,
   <<"l", "e", "s">>, <<"u", "n", "e">>, <<"i", "l">>, <<"l", "o">>,
   <<"g", "l", "i">>, <<"e", "i", "n">>, <<"e", "i", "n", "e">>}

\* The number of whitespace characters cs starts with ("^\s*").
LeadingSpaces(cs) ==
  IF \A i \in 1..Len(cs) : IsSpace(cs[i]) THEN Len(cs)
  ELSE (CHOOSE i \in 1..Len(cs) :
          ~IsSpace(cs[i]) /\ \A j \in 1..(i - 1) : IsSpace(cs[j])) - 1

\* A faulty variant: no whitespace is asked for after the article.
CheckArtistPrefixNoSpace(artist_name) ==
  LET cs == LowerSeq(Chars[artist_name])
      k == LeadingSpaces(cs)
  IN \E a \in Articles : StartsWithAt(cs, k + 1, a)

\* _check_artist_prefix: re.match(REGEX_STRING, artist_name, re.IGNORECASE),
\* that is optional whitespace, an article, and at least one whitespace.
CheckArtistPrefix(artist_name) ==
  LET cs == LowerSeq(Chars[artist_name])
      k == LeadingSpaces(cs)
  IN \E a \in Articles :
       /\ StartsWithAt(cs, k + 1, a)
       /\ k + Len(a) + 1 <= Len(cs)
       /\ IsSpace(cs[k + Len(a) + 1])

\* A selection without the "WHERE sort_name IS NULL" of
\* get_artists_missing_sort_name: every artist is resolved again.
GetArtistsOfAnySortName(d) == DOMAIN d.artists

\* get_artists_missing_sort_name: the ids with sort_name IS NULL (a file
\* without tables has no artists; the SELECT raises there and the pass does
\* not start).
GetArtistsMissingSortName(d) ==
  {a \in DOMAIN d.artists : d.artists[a].sort_name = NULL}

\* get_first_release_from_artist: "... WHERE artist_id = ? LIMIT 1" has no
\* ORDER BY, so any release of the artist may come back; none gives None.
GetFirstReleaseFromArtist(d, artist_id) ==
  LET of == {d.release_artists[i].release_id :
               i \in {j \in 1..Len(d.release_artists) :
                        d.release_artists[j].artist_id = artist_id}}
  IN IF of = {} THEN {NULLID} ELSE of

\* _fetch_sort_name_from_api, first_release_id being the release found:
\* client.release(id).refresh() may raise, else the record's artists_sort,
\* default_name when the record has none.
FetchSortNameFromApi(first_release_id, default_name, rem) ==
  IF first_release_id = NULLID
  THEN [raised |-> FALSE, value |-> default_name, looked_up |-> <<>>]
  ELSE IF rem[first_release_id].raises
       THEN [raised |-> TRUE, value |-> NULL,
             looked_up |-> <<first_release_id>>]
       ELSE [raised |-> FALSE,
             value |-> Get(rem[first_release_id].data, "artists_sort",
                           default_name),
             looked_up |-> <<first_release_id>>]

\* The test of the fast path in DiscogsConn._determine_sort_name: thorough
\* is the local constant False, whatever the user has set.
FastPath(artist_name, setting) ==
  LET thorough == FALSE
  IN ~thorough /\ ~CheckArtistPrefix(artist_name)

\* The same test in DiscogsManager._determine_sort_name:
\* thorough = self.settings.get('thorough_name_fetch', False).
FastPathOfDiscogsManager(artist_name, setting) ==
  LET thorough == setting
  IN ~thorough /\ ~CheckArtistPrefix(artist_name)

\* A faulty variant: the exception of the lookup is not caught.
DetermineSortNameNoCatch(who, artist_name, setting, first_release_id, rem) ==
  IF (IF who = "DiscogsConn" THEN FastPath(artist_name, setting)
      ELSE FastPathOfDiscogsManager(artist_name, setting))
  THEN [path |-> "fast", sort_name |-> artist_name, looked_up |-> <<>>,
        failed |-> FALSE, raised |-> FALSE]
  ELSE LET f == FetchSortNameFromApi(first_release_id, artist_name, rem)
       IN [path |-> "slow",
           sort_name |-> IF f.raised THEN NULL ELSE f.value,
           looked_up |-> f.looked_up,
           failed |-> f.raised, raised |-> f.raised]

\* _determine_sort_name: the name on the fast path, else the remote sort
\* name, the name again when the lookup raises ("except Exception").  failed
\* says that the lookup raised, raised that the call itself raises.
DetermineSortName(who, artist_name, setting, first_release_id, rem) ==
  IF (IF who = "DiscogsConn" THEN FastPath(artist_name, setting)
      ELSE FastPathOfDiscogsManager(artist_name, setting))
  THEN [path |-> "fast", sort_name |-> artist_name, looked_up |-> <<>>,
        failed |-> FALSE, raised |-> FALSE]
  ELSE LET f == FetchSortNameFromApi(first_release_id, artist_name, rem)
       IN [path |-> "slow",
           sort_name |-> IF f.raised THEN artist_name ELSE f.value,
           looked_up |-> f.looked_up,
           failed |-> f.raised, raised |-> FALSE]

\* commit_batch_updates: UPDATE artists SET sort_name = ? WHERE id = ? for
\* updates[i..], in order.
RECURSIVE CommitBatchUpdates(_, _, _)
CommitBatchUpdates(d, updates, i) ==
  IF i > Len(updates) THEN d
  ELSE CommitBatchUpdates(
         IF updates[i].id \in DOMAIN d.artists
         THEN [d EXCEPT !.artists[updates[i].id].sort_name
                          = updates[i].sort_name]
         ELSE d,
         updates, i + 1)

\* A faulty variant: the buffer is committed when it holds more than 10.
BatchFullLate(updates) == Len(updates) > BatchSize

\* "if len(updates) >= 10" in _process_and_batch_updates.
BatchFull(updates) == Len(updates) >= BatchSize

\* A faulty variant: the index of the artist is passed as it is.
ProgressCallOfIndex(i, total) ==
  [kind |-> "progress", completed |-> i, total |-> total]

\* "progress_callback(i + 1, total)", i being the index enumerate gives the
\* artist, from 0.
ProgressCall(i, total) ==
  [kind |-> "progress", completed |-> i + 1, total |-> total]

\* A set of integers as the descending sequence of its elements.
Descending(S) ==
  [i \in 1..Cardinality(S) |-> Ascending(S)[Cardinality(S) + 1 - i]]

\* The orders of the rows of S the model explores: every order of a small
\* set, the ascending and the descending one of a larger set.
Orders(S) ==
  IF Cardinality(S) <= MaxShuffled
  THEN {o \in [1..Cardinality(S) -> S] :
          \A i, j \in 1..Cardinality(S) : o[i] = o[j] => i = j}
  ELSE {Ascending(S), Descending(S)}

\* The coroutines in flight, those at stage from moved on to stage to: a
\* start_refresh coroutine waits for the fetch_artist_sort_names call it
\* made ("pass") until the call returns ("resolved").
Moved(from, to) ==
  [i \in DOMAIN syncs |->
     IF syncs[i].stage = from THEN [syncs[i] EXCEPT !.stage = to]
     ELSE syncs[i]]

\* fetch_artist_sort_names up to the loop: the artists to check, in the
\* order the SELECT gives them; the call returns when there are none.  The
\* caller passes a progress callback or None.
StartPass ==
  /\ sort_pass = NoCall
  /\ GetArtistsMissingSortName(db) # {}
  /\ \E o \in Orders(GetArtistsMissingSortName(db)), cb \in BOOLEAN :
       /\ sort_pass' = [kind |-> "running",
                        artists_to_check |->
                          [i \in 1..Len(o) |->
                             [id |-> o[i], name |-> db.artists[o[i]].name]],
                        progress_callback |-> cb,
                        i |-> 1, updates |-> <<>>]
       /\ events' = <<[kind |-> "start", total |-> Len(o),
                       progress_callback |-> cb]>>
  /\ UNCHANGED <<db, custom_ids, clock, n_ingests, last_ingest, latest,
                 page_request, last_page, resolver, thorough_name_fetch,
                 remote, outcome, lookups>>
  /\ syncs' = Moved("resolve", "pass")
  /\ UNCHANGED <<refresh_flag, pat, client, user, refresh_calls, last_sync>>

\* One iteration of the loop of _process_and_batch_updates: resolve, buffer,
\* report progress, commit when the buffer is full.  An exception out of
\* _determine_sort_name leaves the loop and the call.
ResolveNext ==
  /\ sort_pass.kind = "running"
  /\ sort_pass.i <= Len(sort_pass.artists_to_check)
  /\ LET row == sort_pass.artists_to_check[sort_pass.i]
         total == Len(sort_pass.artists_to_check)
     IN
     \E rel \in GetFirstReleaseFromArtist(db, row.id) :
       LET res == DetermineSortName(resolver, row.name, thorough_name_fetch,
                                    rel, remote)
           updates == Append(sort_pass.updates,
                             [sort_name |-> res.sort_name, id |-> row.id])
           full == BatchFull(updates)
           called == IF sort_pass.progress_callback
                     THEN <<ProgressCall(sort_pass.i - 1, total)>> ELSE <<>>
           committed == IF full
                        THEN <<[kind |-> "commit", updates |-> updates]>>
                        ELSE <<>>
       IN /\ outcome' = Upsert(outcome, row.id, res)
          /\ lookups' = lookups \o res.looked_up
          /\ IF res.raised
             THEN /\ db' = db
                  /\ sort_pass' = [kind |-> "aborted"]
                  /\ events' = Append(events, [kind |-> "raise", id |-> row.id])
             ELSE /\ db' = IF full THEN CommitBatchUpdates(db, updates, 1)
                           ELSE db
                  /\ sort_pass' = [sort_pass EXCEPT
                                     !.i = @ + 1,
                                     !.updates = IF full THEN <<>> ELSE updates]
                  /\ events' = events
                                 \o <<[kind |-> "resolved", id |-> row.id,
                                       sort_name |-> res.sort_name]>>
                                 \o called \o committed
  /\ last_page' = NoCall
  /\ UNCHANGED <<custom_ids, clock, n_ingests, last_ingest, latest,
                 page_request, resolver, thorough_name_fetch, remote>>
  /\ UNCHANGED guiVars

\* The end of the loop: "Commit remaining", and the call returns.
FinishPass ==
  /\ sort_pass.kind = "running"
  /\ sort_pass.i > Len(sort_pass.artists_to_check)
  /\ db' = IF Len(sort_pass.updates) > 0
           THEN CommitBatchUpdates(db, sort_pass.updates, 1) ELSE db
  /\ events' = events
                 \o (IF Len(sort_pass.updates) > 0
                     THEN <<[kind |-> "commit", updates |-> sort_pass.updates]>>
                     ELSE <<>>)
                 \o <<[kind |-> "return"]>>
  /\ sort_pass' = NoCall
  /\ last_page' = NoCall
  /\ UNCHANGED <<custom_ids, clock, n_ingests, last_ingest, latest,
                 page_request, resolver, thorough_name_fetch, remote,
                 outcome, lookups>>
  /\ syncs' = Moved("pass", "resolved")
  /\ UNCHANGED <<refresh_flag, pat, client, user, refresh_calls, last_sync>>

\* The artists of the stores sort names are resolved in.
SortArtists ==
  {[id |-> 1, name |-> "Radiohead"], [id |-> 2, name |-> "The Beatles"],
   [id |-> 3, name |-> "Theatre"], [id |-> 4, name |-> " la Femme"],
   [id |-> 5, name |-> "A\tHa"], [id |-> 6, name |-> "LOS Lobos"],
   [id |-> 7, name |-> "Air"]}

SortPayload(id, artists) ==
  [id |-> id, title |-> "One", year |-> "1999", formats |-> LP,
   artists |-> artists]

\* Stores left by ingestion: release 1 by two artists, then nothing more,
\* or release 1 again by the second artist alone (the first is left without
\* a release), or release 2 by the second artist.
SortStores ==
  { LET one == SaveReleaseToDb(EmptyDb, SortPayload(1, <<a, b>>),
                               FALSE, <<>>, 0).db
    IN CASE then = "nothing" -> one
         [] then = "again" ->
              SaveReleaseToDb(one, SortPayload(1, <<b>>), FALSE, <<>>, 0).db
         [] then = "second" ->
              SaveReleaseToDb(one, SortPayload(2, <<b>>), FALSE, <<>>, 0).db :
      a \in SortArtists, b \in SortArtists,
      then \in {"nothing", "again", "second"} }

\* The artist with id i of the large stores: one name in three starts with
\* an article.
BatchArtist(i) ==
  [id |-> i,
   name |-> CASE i % 3 = 0 -> "Radiohead"
              [] i % 3 = 1 -> "The Beatles"
              [] i % 3 = 2 -> "Air"]

\* The store left by the ingestion of release 1 by the artists 1..n with an
\* odd id and of release 2 by those with an even id.
BatchStore(n) ==
  LET artists == [i \in 1..n |-> BatchArtist(i)]
      one == SaveReleaseToDb(
               EmptyDb,
               SortPayload(1, SelectSeq(artists, LAMBDA a : a.id % 2 = 1)),
               FALSE, <<>>, 0).db
  IN SaveReleaseToDb(
       one, SortPayload(2, SelectSeq(artists, LAMBDA a : a.id % 2 = 0)),
       FALSE, <<>>, 0).db

\* Stores with up to MaxArtists artists, enough for several batches.
BatchStores == {BatchStore(n) : n \in 1..MaxArtists}

\* What the remote catalogue does when a release is fetched: the request
\* fails, or the record comes without or with an artists_sort.
RemoteAnswers ==
  {[raises |-> TRUE, data |-> [title |-> "One"]],
   [raises |-> FALSE, data |-> [title |-> "One"]],
   [raises |-> FALSE,
    data |-> [title |-> "One", artists_sort |-> "Beatles, The"]]}

InitSort ==
  /\ GuiIdle
  /\ db \in SortStores \cup BatchStores
  /\ custom_ids = {}
  /\ clock = 0
  /\ n_ingests = 0
  /\ last_ingest = NoCall
  /\ latest = <<>>
  /\ page_request = DefaultRequest
  /\ last_page = NoCall
  /\ resolver \in {"DiscogsConn", "DiscogsManager"}
  /\ thorough_name_fetch \in BOOLEAN
  /\ remote \in [ReleaseIds -> RemoteAnswers]
  /\ sort_pass = NoCall
  /\ outcome = <<>>
  /\ lookups = <<>>
  /\ events = <<>>

NextSort ==
  \/ StartPass
  \/ ResolveNext
  \/ FinishPass

SpecSort == InitSort /\ [][NextSort]_vars

(***************************************************************************)
(* The life of the store: syncs (ingestion, then a resolve pass), program  *)
(* restarts and wipes.                                                     *)
(***************************************************************************)
\* One item of add_releases_to_db; start_refresh runs the ingestion before
\* the resolve pass, not during it.
SyncIngest ==
  /\ sort_pass = NoCall
  /\ IngestItem

InitLife ==
  /\ GuiIdle
  /\ db = EmptyDb
  /\ custom_ids = {}
  /\ clock = 0
  /\ n_ingests = 0
  /\ last_ingest = NoCall
  /\ latest = <<>>
  /\ page_request = DefaultRequest
  /\ last_page = NoCall
  /\ resolver = "DiscogsConn"
  /\ thorough_name_fetch = FALSE
  /\ remote \in {[r \in 1..3 |-> a] : a \in RemoteAnswers}
  /\ sort_pass = NoCall
  /\ outcome = <<>>
  /\ lookups = <<>>
  /\ events = <<>>

NextLife ==
  \/ SyncIngest
  \/ StartPass
  \/ ResolveNext
  \/ FinishPass
  \/ DeleteDatabase
  \/ Restart

SpecLife == InitLife /\ [][NextLife]_vars

(***************************************************************************)
(* A sync from the interface: start_refresh toggles the connection, awaits *)
(* fetch_collection and fetch_artist_sort_names (both run in a worker      *)
(* thread while the interface stays responsive), refreshes the table and   *)
(* releases refresh_flag.                                                  *)
(***************************************************************************)
\* The test start_refresh makes without looking at refresh_flag.
RefreshGuardOpen(flag) == TRUE

\* "if self.refresh_flag is False:"
RefreshGuard(flag) == flag = FALSE

\* "not self.pat" is false.
HasToken(p) == p \notin {NULL, ""}

\* What the token field of the settings page holds: NULL while the page
\* has not been built (entered_pat is None), else its text.
EnteredPats == {NULL, "", "pat"}

\* save_pat_callback: the text entered, if there is a field, is saved.
SavePat(p, entered) == IF entered = NULL THEN p ELSE entered

\* connect_client
ConnectClient(p, c) ==
  IF HasToken(p) THEN [raised |-> FALSE, client |-> TRUE]
  ELSE [raised |-> TRUE, client |-> c]

\* toggle_discogs_connection; ok says whether the remote identity request
\* succeeds.  Without a token connect_client raises ValueError, a failing
\* identity request raises what the client library raises.
ToggleDiscogsConnection(p, c, u, ok) ==
  IF u THEN [client |-> c, user |-> FALSE, raised |-> "none"]
  ELSE IF ConnectClient(p, c).raised
       THEN [client |-> c, user |-> u, raised |-> "ValueError"]
       ELSE [client |-> TRUE, user |-> ok,
             raised |-> IF ok THEN "none" ELSE "remote"]

\* seq without its i-th element.
RemoveAt(seq, i) ==
  [j \in 1..(Len(seq) - 1) |-> IF j < i THEN seq[j] ELSE seq[j + 1]]

\* How a start_refresh coroutine ended: by an exception at a stage, or by
\* reaching its end, after fetched items had been enumerated.
Raised(stage, fetched) ==
  [kind |-> "raised", stage |-> stage, fetched |-> fetched]

Completed(fetched) ==
  [kind |-> "completed", stage |-> "done", fetched |-> fetched]

\* start_refresh up to its first await.  With the flag set nothing happens.
\* Otherwise the flag is set and discogs_connection_toggle_callback runs:
\* it saves the token entered and toggles the connection; it catches the
\* ValueError of a missing token itself, so the except branch of
\* start_refresh is never taken; any other exception leaves start_refresh.
\* Then fetch_collection is handed to run.io_bound.
StartRefresh ==
  /\ Len(refresh_calls) < MaxRefreshes
  /\ IF RefreshGuard(refresh_flag)
     THEN \E entered \in EnteredPats, ok \in BOOLEAN :
            LET p == SavePat(pat, entered)
                t == ToggleDiscogsConnection(p, client, user, ok)
            IN /\ refresh_flag' = TRUE
               /\ pat' = p
               /\ client' = t.client
               /\ user' = t.user
               /\ IF t.raised = "remote"
                  THEN /\ syncs' = syncs
                       /\ refresh_calls' = Append(refresh_calls, "raised")
                       /\ last_sync' = Raised("toggle", 0)
                  ELSE /\ syncs' = Append(syncs, [stage |-> "connect",
                                                  output_list |-> <<>>,
                                                  before |-> db])
                       /\ refresh_calls' = Append(refresh_calls, "started")
                       /\ last_sync' = last_sync
     ELSE /\ refresh_calls' = Append(refresh_calls, "ignored")
          /\ UNCHANGED <<refresh_flag, pat, client, user, syncs, last_sync>>
  /\ UNCHANGED <<db, custom_ids, clock, n_ingests, last_ingest, latest,
                 page_request, last_page, sortVars>>

\* fetch_collection up to the loop: connect_client if there is no client,
\* identity if there is no user.  An exception leaves fetch_collection and,
\* through the await, start_refresh.
SyncConnect ==
  \E i \in DOMAIN syncs, ok \in BOOLEAN :
    /\ syncs[i].stage = "connect"
    /\ LET c == IF client THEN [raised |-> FALSE, client |-> TRUE]
                ELSE ConnectClient(pat, client)
           failed == c.raised \/ (~user /\ ~ok)
       IN /\ client' = c.client
          /\ user' = (user \/ (~c.raised /\ ok))
          /\ IF failed
             THEN /\ syncs' = RemoveAt(syncs, i)
                  /\ last_sync' = Raised("connect", 0)
             ELSE /\ syncs' = [syncs EXCEPT ![i].stage = "enumerate"]
                  /\ last_sync' = last_sync
    /\ UNCHANGED <<refresh_flag, pat, refresh_calls>>
    /\ UNCHANGED <<db, custom_ids, clock, n_ingests, last_ingest, latest,
                   page_request, last_page, sortVars>>

\* The body of the loop of fetch_collection for one remote item that has
\* basic_information: the store and the list after it.
EnumerateItemAndSave(d, output_list, item) ==
  [db |-> SaveReleaseToDb(d, item.basic_info, item.has_notes, item.notes,
                          0).db,
   output_list |-> Append(output_list, item)]

EnumerateItem(d, output_list, item) ==
  [db |-> d, output_list |-> Append(output_list, item)]

\* The items the remote collection may hold: release 1 by two artists and
\* release 3 by the first of them, each with notes.
SyncItems == {item \in QueryItems : item.basic_info.id # 2}

\* One step of the enumeration of the remote collection: the next item, a
\* failing page request, or the end of the collection.
SyncEnumerate ==
  \E i \in DOMAIN syncs :
    /\ syncs[i].stage = "enumerate"
    /\ \/ /\ Len(syncs[i].output_list) < MaxFetched
          /\ \E item \in SyncItems :
               LET e == EnumerateItem(db, syncs[i].output_list, item)
               IN /\ db' = e.db
                  /\ syncs' = [syncs EXCEPT ![i].output_list = e.output_list]
          /\ last_sync' = last_sync
       \/ /\ db' = db
          /\ syncs' = RemoveAt(syncs, i)
          /\ last_sync' = Raised("enumerate", Len(syncs[i].output_list))
       \/ /\ db' = db
          /\ syncs' = [syncs EXCEPT ![i].stage = "store"]
          /\ last_sync' = last_sync
    /\ UNCHANGED <<refresh_flag, pat, client, user, refresh_calls>>
    /\ UNCHANGED <<custom_ids, clock, n_ingests, last_ingest, latest,
                   page_request, last_page, sortVars>>

\* add_releases_to_db from the k-th item on: the store after the loop, the
\* number of save_release_to_db calls made, and whether the last one raised.
RECURSIVE AddReleasesToDb(_, _, _, _)
AddReleasesToDb(d, release_list, k, now) ==
  IF k > Len(release_list)
  THEN [db |-> d, raised |-> FALSE, calls |-> k - 1]
  ELSE LET item == release_list[k]
           res == SaveReleaseToDb(d, item.basic_info, item.has_notes,
                                  item.notes, now)
       IN IF res.raised THEN [db |-> res.db, raised |-> TRUE, calls |-> k]
          ELSE AddReleasesToDb(res.db, release_list, k + 1, now)

\* The payloads last ingested, after those of items were.
RECURSIVE LatestAfter(_, _)
LatestAfter(l, items) ==
  IF items = <<>> THEN l
  ELSE LET basic_info == Head(items).basic_info
           rel_id == Get(basic_info, "id", NULLID)
       IN LatestAfter(IF rel_id = NULLID THEN l
                      ELSE Upsert(l, rel_id, basic_info),
                      Tail(items))

\* The end of fetch_collection: add_releases_to_db(output_list).
SyncStore ==
  \E i \in DOMAIN syncs :
    /\ syncs[i].stage = "store"
    /\ LET release_list == syncs[i].output_list
           res == AddReleasesToDb(db, release_list, 1, clock)
           done == IF res.raised THEN res.calls - 1 ELSE res.calls
       IN /\ db' = res.db
          /\ n_ingests' = n_ingests + res.calls
          /\ latest' = LatestAfter(latest, SubSeq(release_list, 1, done))
          /\ last_ingest' =
               IF res.calls = 0 THEN last_ingest
               ELSE [kind |-> "ingest",
                     basic_info |-> release_list[res.calls].basic_info,
                     has_notes |-> release_list[res.calls].has_notes,
                     notes |-> release_list[res.calls].notes,
                     raised |-> res.raised]
          /\ IF res.raised
             THEN /\ syncs' = RemoveAt(syncs, i)
                  /\ last_sync' = Raised("store", Len(release_list))
             ELSE /\ syncs' = [syncs EXCEPT ![i].stage = "resolve"]
                  /\ last_sync' = last_sync
    /\ last_page' = NoCall
    /\ UNCHANGED <<refresh_flag, pat, client, user, refresh_calls>>
    /\ UNCHANGED <<custom_ids, clock, page_request, sortVars>>

\* fetch_artist_sort_names, called by a coroutine whose fetch_collection
\* has returned, finds artists to check (the manager has a client by then).
SyncStartPass ==
  /\ \E i \in DOMAIN syncs : syncs[i].stage = "resolve"
  /\ StartPass

\* The end of start_refresh: fetch_artist_sort_names has returned, at once
\* when no artist lacks a sort name.  The first page of the table is
\* requested again, then the flag is released; an exception out of the
\* request leaves start_refresh before that.
EndRefresh ==
  \E i \in DOMAIN syncs :
    /\ \/ syncs[i].stage = "resolved"
       \/ /\ syncs[i].stage = "resolve"
          /\ sort_pass = NoCall
          /\ GetArtistsMissingSortName(db) = {}
    /\ \E pick \in Picks :
         last_page' = GetReleasesPaginated(db, custom_ids, page_request, pick)
    /\ refresh_flag' = (refresh_flag /\ last_page'.raised)
    /\ syncs' = RemoveAt(syncs, i)
    /\ last_sync' = IF last_page'.raised
                    THEN Raised("refresh", Len(syncs[i].output_list))
                    ELSE Completed(Len(syncs[i].output_list))
    /\ UNCHANGED <<pat, client, user, refresh_calls>>
    /\ UNCHANGED <<db, custom_ids, clock, n_ingests, last_ingest, latest,
                   page_request, sortVars>>

\* The program starts with or without a secrets.txt.
InitSync ==
  /\ refresh_flag = FALSE
  /\ pat \in {NULL, "pat"}
  /\ client = FALSE
  /\ user = FALSE
  /\ syncs = <<>>
  /\ refresh_calls = <<>>
  /\ last_sync = NoCall
  /\ db = EmptyDb
  /\ custom_ids = {}
  /\ clock = 0
  /\ n_ingests = 0
  /\ last_ingest = NoCall
  /\ latest = <<>>
  /\ page_request = DefaultRequest
  /\ last_page = NoCall
  /\ resolver = "DiscogsConn"
  /\ thorough_name_fetch = FALSE
  /\ remote \in {[r \in 1..3 |-> a] : a \in RemoteAnswers}
  /\ sort_pass = NoCall
  /\ outcome = <<>>
  /\ lookups = <<>>
  /\ events = <<>>

NextSync ==
  \/ StartRefresh
  \/ SyncConnect
  \/ SyncEnumerate
  \/ SyncStore
  \/ SyncStartPass
  \/ ResolveNext
  \/ FinishPass
  \/ EndRefresh

SpecSync == InitSync /\ [][NextSync]_vars

(***************************************************************************)
(* Properties of ingestion.                                                *)
(***************************************************************************)
\* The rows of a table kept as a sequence, with their multiplicities.
RowBag(rows) ==
  [r \in Range(rows) |-> Cardinality({i \in 1..Len(rows) : rows[i] = r})]

NoDuplicateRows(rows) ==
  \A i, j \in 1..Len(rows) : rows[i] = rows[j] => i = j

\* The row sets of Release, ReleaseArtist, ReleaseGenre, ReleaseStyle and
\* ReleaseLabel.
IngestRowSets(d) ==
  <<d.releases, RowBag(d.release_artists), RowBag(d.release_genres),
    RowBag(d.release_styles), RowBag(d.release_labels)>>

\* The same, leaving the date_added column out.
IngestRowSetsButDateAdded(d) ==
  <<[r \in DOMAIN d.releases |->
       [k \in (DOMAIN d.releases[r]) \ {"date_added"} |-> d.releases[r][k]]],
    RowBag(d.release_artists), RowBag(d.release_genres),
    RowBag(d.release_styles), RowBag(d.release_labels)>>

NoDuplicates(d) ==
  /\ NoDuplicateRows(d.release_artists)
  /\ NoDuplicateRows(d.release_genres)
  /\ NoDuplicateRows(d.release_styles)
  /\ NoDuplicateRows(d.release_labels)
  /\ NoDuplicateRows(d.genres)
  /\ NoDuplicateRows(d.styles)
  /\ NoDuplicateRows(d.labels)

\* This step is a save_release_to_db call with the payload and the notes of
\* the call before it, the payload having an id.
SameIngestAgain ==
  /\ last_ingest.kind = "ingest"
  /\ n_ingests' = n_ingests + 1
  /\ last_ingest'.basic_info = last_ingest.basic_info
  /\ last_ingest'.has_notes = last_ingest.has_notes
  /\ last_ingest'.notes = last_ingest.notes
  /\ Get(last_ingest.basic_info, "id", NULLID) # NULLID

\* C1: ingesting the same payload (with the same notes) a second time leaves
\* the row sets of Release, ReleaseArtist, ReleaseGenre, ReleaseStyle and
\* ReleaseLabel as the first ingestion left them, with no duplicate join rows
\* and no duplicate Genre/Style/Label entries.
C1_IngestIdempotent ==
  [][SameIngestAgain =>
       /\ IngestRowSets(db') = IngestRowSets(db)
       /\ db'.artists = db.artists
       /\ NoDuplicates(db')]_vars

\* What does hold of a repeated ingestion: every column but date_added, the
\* join rows and the lookup entries are as the first ingestion left them.
IngestIdempotentButDateAdded ==
  [][SameIngestAgain =>
       /\ IngestRowSetsButDateAdded(db') = IngestRowSetsButDateAdded(db)
       /\ db'.artists = db.artists
       /\ <<db'.genres, db'.styles, db'.labels>>
            = <<db.genres, db.styles, db.labels>>
       /\ NoDuplicates(db')]_vars

\* The primary rows of release r in release_artists.
PrimaryRows(d, r) ==
  {i \in 1..Len(d.release_artists) :
     /\ d.release_artists[i].release_id = r
     /\ d.release_artists[i].is_primary = 1}

\* C2: every release whose latest payload has at least one artist has exactly
\* one release_artists row with is_primary = 1, the row of the first artist of
\* that payload; no release has more than one primary row.
C2_PrimaryArtist ==
  /\ \A r \in DOMAIN latest :
       LET artists == Get(latest[r], "artists", <<>>) IN
       Len(artists) >= 1 =>
         /\ Cardinality(PrimaryRows(db, r)) = 1
         /\ \A i \in PrimaryRows(db, r) :
              db.release_artists[i].artist_id = artists[1].id
  /\ \A i \in 1..Len(db.release_artists) :
       Cardinality(PrimaryRows(db, db.release_artists[i].release_id)) <= 1

\* A release was ingested a second time with another first artist, and has
\* two artists.
C2_Witness ==
  /\ n_ingests = 2
  /\ last_ingest.kind = "ingest"
  /\ \E r \in DOMAIN latest :
       /\ Get(last_ingest.basic_info, "id", NULLID) = r
       /\ Len(Get(latest[r], "artists", <<>>)) = 2
       /\ latest[r].artists[1].id = 2
       /\ \E i \in 1..Len(db.release_artists) :
            /\ db.release_artists[i].release_id = r
            /\ db.release_artists[i].artist_id = 1
            /\ db.release_artists[i].is_primary = 0
       /\ db.artists[1].name = "Radiohead"

(***************************************************************************)
(* Properties of the paginated read.                                       *)
(***************************************************************************)
\* The get_releases_paginated call of this state returned (rows, total).
Returned == last_page.kind = "page" /\ ~last_page.raised

ReturnedIds == {last_page.rows[i].id : i \in 1..Len(last_page.rows)}

FilterKeys ==
  {"artist_ids", "genre_ids", "style_ids", "label_ids", "formats",
   "custom_field_filters"}

\* The filter groups the request supplies (present and not empty).
Supplied(req) ==
  {k \in FilterKeys : Truthy(req, k)}
    \cup (IF req.search_query # "" THEN {"search_query"} ELSE {})

\* C3: for the filters of any get_page call that returned, the number of
\* rows get_page returns for them with page_size = 0 equals the total count
\* the call returned.
C3_CountEqualsRows ==
  Returned =>
    IF last_page.request.page_size = 0
    THEN Len(last_page.rows) = last_page.total_rows
    ELSE \A pick \in Picks :
           LET all == GetReleasesPaginated(
                        db, custom_ids,
                        [last_page.request EXCEPT !.page_size = 0], pick)
           IN /\ ~all.raised
              /\ Len(all.rows) = last_page.total_rows

\* A call with a search text, a genre filter and a custom-field filter that
\* returned some of the releases but not all, one of them having several
\* artists and labels.
C3_Witness ==
  /\ Returned
  /\ {"search_query", "genre_ids", "custom_field_filters"}
       \subseteq Supplied(last_page.request)
  /\ last_page.total_rows = 1
  /\ Cardinality(DOMAIN db.releases) = 2
  /\ Cardinality(FilteredRows(db, last_page.query,
                              last_page.count_params)) > 1

\* C4: in every get_page call that builds both queries, the count query and
\* the main query have the same WHERE clause and the same set of joined
\* tables, the parameters of the main query are those of the count query in
\* the same order followed by the limit and the offset, and only the main
\* query has GROUP BY, ORDER BY and LIMIT/OFFSET.
C4_SameWhereJoinsParams ==
  (last_page.kind = "page" /\ "query" \in DOMAIN last_page) =>
    /\ last_page.query.where_sql = last_page.count_query.where_sql
    /\ Range(last_page.query.joins) = Range(last_page.count_query.joins)
    /\ Len(last_page.full_params) = Len(last_page.count_params) + 2
    /\ SubSeq(last_page.full_params, 1, Len(last_page.count_params))
         = last_page.count_params
    /\ last_page.count_query.group_by = ""
    /\ last_page.count_query.order_by.kind = "none"
    /\ ~last_page.count_query.limit_offset
    /\ last_page.query.group_by = "r.id"
    /\ last_page.query.order_by.kind # "none"
    /\ last_page.query.limit_offset

\* A call with a search text, a style filter and a custom-field filter, the
\* custom-field tables being joined.
C4_Witness ==
  /\ Returned
  /\ {"search_query", "style_ids", "custom_field_filters"}
       \subseteq Supplied(last_page.request)
  /\ Len(last_page.count_params) >= 8
  /\ Len(last_page.query.joins) = 10

\* C5: for a filtered result of N releases in the requested order, a call
\* with page_size = 0 returns all N rows whatever the page, a call with
\* page_size = s > 0 and page p returns the rows at positions
\* p*s+1 .. min(N, (p+1)*s), none when p*s >= N; the total is N.
C5_Pagination ==
  Returned =>
    LET N == Len(last_page.ordered)
        p == last_page.request.page
        s == last_page.request.page_size
        last == IF (p + 1) * s < N THEN (p + 1) * s ELSE N
    IN /\ last_page.total_rows = N
       /\ IF s = 0 THEN last_page.rows = last_page.ordered
          ELSE IF p * s >= N THEN last_page.rows = <<>>
          ELSE last_page.rows
                 = [i \in 1..(last - p * s) |-> last_page.ordered[p * s + i]]

\* The second page of size 1 of a result of 2 releases, and page 2 with
\* page_size 0 of the same result.
C5_Witness ==
  /\ Returned
  /\ Len(last_page.ordered) = 2
  /\ last_page.request.page = 1
  /\ last_page.request.page_size = 1
  /\ last_page.rows = <<last_page.ordered[2]>>

\* Release r has a row in the junction table for one of the ids.
JoinedTo(d, table, column, r, ids) ==
  \E i \in 1..Len(d[table]) :
    /\ d[table][i].release_id = r
    /\ d[table][i][column] \in Range(ids)

\* Release r passes the genre, style and label groups the request supplies.
PassesLookupGroups(d, req, r) ==
  /\ "genre_ids" \in Supplied(req) =>
       JoinedTo(d, "release_genres", "genre_id", r, req.genre_ids)
  /\ "style_ids" \in Supplied(req) =>
       JoinedTo(d, "release_styles", "style_id", r, req.style_ids)
  /\ "label_ids" \in Supplied(req) =>
       JoinedTo(d, "release_labels", "label_id", r, req.label_ids)

\* C7: a call filtering by genre, style and label ids only returns every
\* release joined to at least one of the ids of each supplied group, each
\* release exactly once.
C7_LookupFiltersOrNoDuplicates ==
  ( /\ Returned
    /\ last_page.request.page_size = 0
    /\ Supplied(last_page.request) # {}
    /\ Supplied(last_page.request)
         \subseteq {"genre_ids", "style_ids", "label_ids"} ) =>
    /\ ReturnedIds = {r \in DOMAIN db.releases :
                        PassesLookupGroups(db, last_page.request, r)}
    /\ Len(last_page.rows) = Cardinality(ReturnedIds)

\* Genres 1 and 2 are asked for; release 1 has both genres, two artists and
\* two label rows, release 2 has genre 2 only; both are returned.
C7_Witness ==
  /\ Returned
  /\ Supplied(last_page.request) = {"genre_ids"}
  /\ last_page.request.genre_ids = <<1, 2>>
  /\ Len(last_page.rows) = 2
  /\ ReturnedIds = {1, 2}
  /\ Cardinality(Matching(db.release_genres, 1)) = 2
  /\ Cardinality(Matching(db.release_artists, 1)) = 2
  /\ Cardinality(Matching(db.release_labels, 1)) = 2
  /\ Cardinality(Matching(db.release_genres, 2)) = 1

\* The request filters by custom field f = [Blanks] and by nothing else.
BlanksRequest(req, f) ==
  /\ Supplied(req) = {"custom_field_filters"}
  /\ req.custom_field_filters
       = <<[field_id |-> f, values |-> <<BLANKS_LABEL>>]>>

\* Release r has no row for field f, or a NULL, empty or whitespace-only
\* value.
IsBlank(d, f, r) ==
  \/ r \notin DOMAIN d.custom[f]
  \/ d.custom[f][r] = NULL
  \/ \A i \in 1..Len(Chars[d.custom[f][r]]) : IsSpace(Chars[d.custom[f][r]][i])

\* C6: for a custom field f of the store, get_page with
\* custom_field_filters {f: ["[Blanks]"]} returns exactly the releases that
\* have no row for f or a NULL, empty or whitespace-only value for f.
C6_BlanksFilter ==
  \A f \in DOMAIN db.custom :
    (last_page.kind = "page" /\ BlanksRequest(last_page.request, f)) =>
      /\ ~last_page.raised
      /\ ReturnedIds = {r \in DOMAIN db.releases : IsBlank(db, f, r)}

\* The same for the fields whose table existed when the program started.
BlanksFilterOfLoadedField ==
  \A f \in custom_ids :
    (last_page.kind = "page" /\ BlanksRequest(last_page.request, f)) =>
      /\ ~last_page.raised
      /\ ReturnedIds = {r \in DOMAIN db.releases : IsBlank(db, f, r)}

\* A [Blanks] call on a loaded field that returned one release with an empty
\* value and left out one with a value.
BlanksFilterOfLoadedFieldWitness ==
  /\ Returned
  /\ BlanksRequest(last_page.request, 1)
  /\ 1 \in custom_ids
  /\ \E r \in ReturnedIds : r \in DOMAIN db.custom[1]
  /\ \E r \in DOMAIN db.releases : r \notin ReturnedIds

\* The texts the search looks at for release r: title, year, and the names
\* of its artists, labels, catalogue numbers and styles.
SearchTexts(d, r) ==
  {d.releases[r].title, d.releases[r].year}
    \cup {d.artists[d.release_artists[i].artist_id].name :
            i \in {j \in Matching(d.release_artists, r) :
                     d.release_artists[j].artist_id \in DOMAIN d.artists}}
    \cup {LookupName(d.labels, d.release_labels[i].label_id) :
            i \in Matching(d.release_labels, r)}
    \cup {d.release_labels[i].catno : i \in Matching(d.release_labels, r)}
    \cup {LookupName(d.styles, d.release_styles[i].style_id) :
            i \in Matching(d.release_styles, r)}

\* Release r passes one custom-field filter: a listed value, or blank when
\* [Blanks] is listed; an empty list imposes nothing.
PassesCustomFilter(d, filter, r) ==
  \/ Len(filter.values) = 0
  \/ /\ BLANKS_LABEL \in Range(filter.values)
     /\ filter.field_id \in DOMAIN d.custom => IsBlank(d, filter.field_id, r)
  \/ /\ filter.field_id \in DOMAIN d.custom
     /\ r \in DOMAIN d.custom[filter.field_id]
     /\ d.custom[filter.field_id][r] \in Range(filter.values) \ {BLANKS_LABEL}

\* Release r satisfies every filter group the request supplies.
Satisfies(d, req, r) ==
  /\ "search_query" \in Supplied(req) =>
       \E text \in SearchTexts(d, r) : Like(text, LikePattern(req.search_query))
  /\ "artist_ids" \in Supplied(req) =>
       JoinedTo(d, "release_artists", "artist_id", r, req.artist_ids)
  /\ PassesLookupGroups(d, req, r)
  /\ "formats" \in Supplied(req) =>
       d.releases[r].format \in Range(req.formats)
  /\ "custom_field_filters" \in Supplied(req) =>
       \A i \in 1..Len(req.custom_field_filters) :
         PassesCustomFilter(d, req.custom_field_filters[i], r)

\* C8: a get_page call that returns (with page_size = 0, so that nothing is
\* cut off) returns a release if and only if the release satisfies every
\* filter group the request supplies; absent and empty groups impose nothing.
C8_AndOfGroups ==
  (Returned /\ last_page.request.page_size = 0) =>
    ReturnedIds = {r \in DOMAIN db.releases :
                     Satisfies(db, last_page.request, r)}

\* The same, for the requests that do not combine a search text with an
\* artist filter.
AndOfGroupsButSearchWithArtists ==
  ( /\ Returned
    /\ last_page.request.page_size = 0
    /\ ~({"search_query", "artist_ids"} \subseteq Supplied(last_page.request)) )
  => ReturnedIds = {r \in DOMAIN db.releases :
                      Satisfies(db, last_page.request, r)}

(***************************************************************************)
(* Properties of sort-name resolution.                                     *)
(***************************************************************************)
\* The names of SortArtists that start with an article of the list followed
\* by whitespace.
WithArticle == {"The Beatles", " la Femme", "A\tHa", "LOS Lobos"}

\* C9: when thorough is not set, an artist whose name does not start with an
\* article followed by whitespace gets its name as sort name on the fast
\* path, without a remote lookup; an artist whose name does start with one
\* is resolved on the slow path.
C9_FastPath ==
  thorough_name_fetch = FALSE =>
    /\ \A a \in DOMAIN outcome :
         IF db.artists[a].name \in WithArticle
         THEN outcome[a].path = "slow"
         ELSE /\ outcome[a].path = "fast"
              /\ outcome[a].sort_name = db.artists[a].name
              /\ outcome[a].looked_up = <<>>
              /\ sort_pass = NoCall =>
                   db.artists[a].sort_name = db.artists[a].name
    /\ Len(lookups)
         <= Cardinality({a \in DOMAIN outcome :
                           db.artists[a].name \in WithArticle})

\* A finished pass of DiscogsConn without thorough: "Theatre" kept its name
\* without a lookup, "The Beatles" got the remote sort name.
C9_Witness ==
  /\ thorough_name_fetch = FALSE
  /\ resolver = "DiscogsConn"
  /\ sort_pass = NoCall
  /\ DOMAIN outcome = {2, 3}
  /\ outcome[3].path = "fast"
  /\ db.artists[3].sort_name = "Theatre"
  /\ outcome[2].path = "slow"
  /\ db.artists[2].sort_name = "Beatles, The"
  /\ Len(lookups) = 1

\* C10: when thorough is set, every artist that is resolved is resolved on
\* the slow path, with a remote lookup of a release of the artist if there
\* is one.
C10_ThoroughSlowPath ==
  thorough_name_fetch = TRUE =>
    \A a \in DOMAIN outcome :
      /\ outcome[a].path = "slow"
      /\ GetFirstReleaseFromArtist(db, a) # {NULLID} =>
           Len(outcome[a].looked_up) = 1

\* The same of DiscogsManager alone.
ThoroughSlowPathOfDiscogsManager ==
  (thorough_name_fetch = TRUE /\ resolver = "DiscogsManager") =>
    \A a \in DOMAIN outcome :
      /\ outcome[a].path = "slow"
      /\ GetFirstReleaseFromArtist(db, a) # {NULLID} =>
           Len(outcome[a].looked_up) = 1

\* DiscogsManager resolved "Radiohead" on the slow path, thorough being set.
ThoroughSlowPathOfDiscogsManagerWitness ==
  /\ thorough_name_fetch = TRUE
  /\ resolver = "DiscogsManager"
  /\ 1 \in DOMAIN outcome
  /\ outcome[1].path = "slow"
  /\ outcome[1].looked_up = <<1>>

(***************************************************************************)
(* Properties of a resolve pass, on the record of what it did.             *)
(***************************************************************************)
EventsOf(kind) == SelectSeq(events, LAMBDA e : e.kind = kind)

\* The fetch_artist_sort_names call has returned.
PassReturned == events # <<>> /\ events[Len(events)].kind = "return"

\* The position of the last commit among the first k events, 0 for none.
LastCommit(k) ==
  LET at == {q \in 1..k : events[q].kind = "commit"}
  IN IF at = {} THEN 0 ELSE CHOOSE q \in at : \A r \in at : r <= q

\* The updates resolved and not committed after the first k events.
BufferAt(k) ==
  LET since == SelectSeq(SubSeq(events, LastCommit(k) + 1, k),
                         LAMBDA e : e.kind = "resolved")
  IN [i \in 1..Len(since) |->
        [sort_name |-> since[i].sort_name, id |-> since[i].id]]

\* The position of the event that says artist a was resolved.
ResolvedAt(a) ==
  CHOOSE p \in 1..Len(events) :
    events[p].kind = "resolved" /\ events[p].id = a

\* The artists resolved so far.
ResolvedIds == {e.id : e \in Range(EventsOf("resolved"))}

\* C11: when the lookup raises for an artist, the artist gets its display
\* name as sort name and the exception does not leave the pass; the pass goes
\* on to every remaining artist, and when it has returned every artist it
\* selected has been resolved and its sort name committed to the store.
C11_FailureIsolation ==
  /\ sort_pass.kind # "aborted"
  /\ \A a \in DOMAIN outcome :
       outcome[a].failed =>
         /\ ~outcome[a].raised
         /\ outcome[a].sort_name = db.artists[a].name
  /\ sort_pass.kind = "running" =>
       ResolvedIds = {sort_pass.artists_to_check[k].id :
                        k \in 1..(sort_pass.i - 1)}
  /\ PassReturned =>
       /\ Cardinality(ResolvedIds) = events[1].total
       /\ \A e \in Range(EventsOf("resolved")) :
            db.artists[e.id].sort_name = e.sort_name

\* A returned pass over 11 artists or more in which the lookup raised for
\* one artist and a later artist got the remote sort name.
C11_Witness ==
  /\ PassReturned
  /\ events[1].total >= 11
  /\ \E a, b \in DOMAIN outcome :
       /\ outcome[a].failed
       /\ db.artists[a].sort_name = "The Beatles"
       /\ ResolvedAt(a) < ResolvedAt(b)
       /\ outcome[b].path = "slow"
       /\ ~outcome[b].failed
       /\ db.artists[b].sort_name = "Beatles, The"

\* C12: every commit holds the updates resolved since the commit before it,
\* at least 1 and at most 10 of them, and exactly 10 unless it is the flush
\* at the end; no more than 10 resolved updates are ever uncommitted; a pass
\* over n artists that has returned made ceil(n/10) commits and left no
\* update uncommitted, each artist being resolved once.
C12_BatchedCommits ==
  /\ \A q \in 1..Len(events) :
       events[q].kind = "commit" =>
         /\ events[q].updates = BufferAt(q - 1)
         /\ Len(events[q].updates) \in 1..BatchSize
         /\ Len(events[q].updates) = BatchSize \/ events[q + 1].kind = "return"
  /\ \A k \in 1..Len(events) : Len(BufferAt(k)) <= BatchSize
  /\ Cardinality(ResolvedIds) = Len(EventsOf("resolved"))
  /\ PassReturned =>
       /\ Len(EventsOf("commit"))
            = (events[1].total + BatchSize - 1) \div BatchSize
       /\ Len(EventsOf("resolved")) = events[1].total
       /\ BufferAt(Len(events)) = <<>>

\* A returned pass over 21 artists: three commits, the last one of one
\* update.
C12_Witness ==
  /\ PassReturned
  /\ events[1].total = 21
  /\ Len(EventsOf("commit")) = 3
  /\ Len(events[Len(events) - 1].updates) = 1
  /\ \A a \in 1..21 : db.artists[a].sort_name # NULL

\* C13: in a pass that is given a progress callback, the callback is called
\* right after each artist is resolved, the i-th call with (i, n), n being
\* the number of artists of the pass; the call for an artist comes before the
\* commit that holds the artist's update; a pass that has returned made n
\* calls.
C13_ProgressReporting ==
  (events # <<>> /\ events[1].progress_callback) =>
    /\ EventsOf("progress")
         = [i \in 1..Len(EventsOf("resolved")) |->
              [kind |-> "progress", completed |-> i,
               total |-> events[1].total]]
    /\ \A p \in 1..Len(events) :
         events[p].kind = "resolved" =>
           /\ p < Len(events)
           /\ events[p + 1].kind = "progress"
           /\ \A q \in 1..Len(events) :
                ( /\ events[q].kind = "commit"
                  /\ \E u \in 1..Len(events[q].updates) :
                       events[q].updates[u].id = events[p].id )
                => p + 1 < q
    /\ PassReturned => Len(EventsOf("progress")) = events[1].total

\* A returned pass over 11 artists with a callback: 11 calls, the tenth
\* before the first commit, the eleventh between the two commits.
C13_Witness ==
  /\ PassReturned
  /\ events[1].progress_callback
  /\ events[1].total = 11
  /\ Len(EventsOf("progress")) = 11
  /\ events[21] = [kind |-> "progress", completed |-> 10, total |-> 11]
  /\ events[22].kind = "commit"
  /\ events[24] = [kind |-> "progress", completed |-> 11, total |-> 11]
  /\ events[25].kind = "commit"

(***************************************************************************)
(* More properties of ingestion.                                           *)
(***************************************************************************)
\* This step is a save_release_to_db call that completed for a payload with
\* an id.
IngestStep ==
  /\ n_ingests' = n_ingests + 1
  /\ last_ingest'.kind = "ingest"
  /\ ~last_ingest'.raised
  /\ Get(last_ingest'.basic_info, "id", NULLID) # NULLID

\* The artists of a payload.
ArtistsOf(basic_info) == Get(basic_info, "artists", <<>>)

\* The name the payload gives artist a where it lists the artist first.
FirstNameIn(basic_info, a) ==
  LET at == {i \in 1..Len(ArtistsOf(basic_info)) :
               ArtistsOf(basic_info)[i].id = a}
  IN ArtistsOf(basic_info)[CHOOSE i \in at : \A j \in at : i <= j].name

\* C14: an ingestion leaves every artists row that existed as it was, name
\* included, and adds one row for each artist id of the payload that had
\* none, with the name the payload gives it; so the table holds one row per
\* artist id seen, with the name of the first ingestion that mentioned it.
C14_ArtistInsertIfAbsent ==
  [][IngestStep =>
       LET seen == {ArtistsOf(last_ingest'.basic_info)[i].id :
                      i \in 1..Len(ArtistsOf(last_ingest'.basic_info))}
       IN /\ DOMAIN db'.artists = (DOMAIN db.artists) \cup seen
          /\ \A a \in DOMAIN db.artists : db'.artists[a] = db.artists[a]
          /\ \A a \in seen \ DOMAIN db.artists :
               db'.artists[a].name = FirstNameIn(last_ingest'.basic_info, a)]_vars

\* Artist 1 came in as "Radiohead" with the first release and as "Air" with
\* the second: there is one row for it, named "Radiohead".
C14_Witness ==
  /\ n_ingests = 2
  /\ last_ingest.kind = "ingest"
  /\ ~last_ingest.raised
  /\ Cardinality(DOMAIN db.releases) = 2
  /\ Renamed \in Range(ArtistsOf(last_ingest.basic_info))
  /\ db.artists[1].name = "Radiohead"
  /\ Cardinality({i \in 1..Len(db.release_artists) :
                    db.release_artists[i].artist_id = 1}) = 2

\* The state follows a save_release_to_db call for a payload with an id.
Ingested ==
  /\ last_ingest.kind = "ingest"
  /\ Get(last_ingest.basic_info, "id", NULLID) # NULLID

\* The payload has no formats entry: no formats key, or an empty list.
NoFormats(basic_info) == Len(Get(basic_info, "formats", <<>>)) = 0

\* The rows of a junction table that belong to release r.
RowsOf(rows, r) == SelectSeq(rows, LAMBDA row : row.release_id = r)

\* The lists of the payload, absent ones being empty, are what the junction
\* tables hold for the release.
ListsStored(d, basic_info) ==
  LET r == basic_info.id IN
  /\ Len(RowsOf(d.release_artists, r))
       = Cardinality({a.id : a \in Range(ArtistsOf(basic_info))})
  /\ Len(RowsOf(d.release_genres, r)) = Len(Get(basic_info, "genres", <<>>))
  /\ Len(RowsOf(d.release_styles, r)) = Len(Get(basic_info, "styles", <<>>))
  /\ Len(RowsOf(d.release_labels, r)) = Len(Get(basic_info, "labels", <<>>))

\* C15: a save_release_to_db call for a payload with an id and no formats
\* entry (no formats key, or an empty list) raises nothing and stores the
\* empty string as the format of the release; a payload without artists,
\* genres, styles or labels is stored as one with empty lists.
C15_MissingFormats ==
  Ingested =>
    /\ NoFormats(last_ingest.basic_info) =>
         /\ ~last_ingest.raised
         /\ last_ingest.basic_info.id \in DOMAIN db.releases
         /\ db.releases[last_ingest.basic_info.id].format = ""
    /\ ~last_ingest.raised => ListsStored(db, last_ingest.basic_info)

\* What does hold: a call for a payload without a formats entry raises and
\* leaves the store as it was, and a call that completes stores absent lists
\* as empty ones.
MissingFormatsRaise ==
  [][(n_ingests' = n_ingests + 1 /\ last_ingest'.kind = "ingest"
        /\ Get(last_ingest'.basic_info, "id", NULLID) # NULLID) =>
       IF NoFormats(last_ingest'.basic_info)
       THEN last_ingest'.raised /\ db' = db
       ELSE ~last_ingest'.raised
              /\ ListsStored(db', last_ingest'.basic_info)]_vars

\* This step is a save_release_to_db call for a payload without an id.
NoIdIngestStep ==
  /\ n_ingests' = n_ingests + 1
  /\ last_ingest'.kind = "ingest"
  /\ Get(last_ingest'.basic_info, "id", NULLID) = NULLID

\* C16: a save_release_to_db call for a payload without an id leaves every
\* table as it was, creates no custom-field table even when it is given
\* notes, and raises nothing.
C16_NoIdNoOp ==
  [][NoIdIngestStep =>
       /\ db' = db
       /\ custom_ids' = custom_ids
       /\ ~last_ingest'.raised]_vars

\* A payload without an id key came with two notes after a release had been
\* ingested: the release is there, no custom-field table is.
C16_Witness ==
  /\ n_ingests = 2
  /\ last_ingest.kind = "ingest"
  /\ "id" \notin DOMAIN last_ingest.basic_info
  /\ last_ingest.has_notes
  /\ Len(last_ingest.notes) = 2
  /\ ~last_ingest.raised
  /\ Cardinality(DOMAIN db.releases) = 1
  /\ db.release_artists # <<>>
  /\ DOMAIN db.custom = {}

\* C18: no step changes the date_added of a release that is in the store;
\* re-ingesting the release leaves the value of the first insertion.
C18_DateAddedKept ==
  [][\A r \in DOMAIN db.releases :
       /\ r \in DOMAIN db'.releases
       /\ db'.releases[r].date_added = db.releases[r].date_added]_vars

\* What does hold: date_added of a release is the time of the last ingestion
\* of the release.
DateAddedOfLastIngestion ==
  [][IngestStep =>
       /\ db'.releases[last_ingest'.basic_info.id].date_added = clock
       /\ \A r \in DOMAIN db.releases :
            r # last_ingest'.basic_info.id =>
              db'.releases[r] = db.releases[r]]_vars

(***************************************************************************)
(* Properties of ingestion step by step.                                   *)
(***************************************************************************)
\* What the store holds for release r: its row, its join rows and its
\* custom-field values.
ReleaseView(d, r) ==
  [release |-> IF r \in DOMAIN d.releases THEN <<d.releases[r]>> ELSE <<>>,
   artists |-> RowsOf(d.release_artists, r),
   genres |-> RowsOf(d.release_genres, r),
   styles |-> RowsOf(d.release_styles, r),
   labels |-> RowsOf(d.release_labels, r),
   custom |-> [f \in {g \in DOMAIN d.custom : r \in DOMAIN d.custom[g]} |->
                 d.custom[f][r]]]

\* The rows a page has for release r: none or one.
PageRowsOf(rows, r) == SelectSeq(rows, LAMBDA row : row.id = r)

\* What get_page returns for the request on store d (the requests order by a
\* column of the release, the engine has no choice).
PageOn(d, req) ==
  GetReleasesPaginated(d, custom_ids, req, [r \in DOMAIN d.releases |-> 0])

\* C17: while a save_release_to_db call for release r is under way, or after
\* it was cut short, the store holds for r what it held before the call or
\* what it holds when all four steps are done, and a get_page call returns
\* for r what it returns on one of these two stores.
C17_AtomicIngestion ==
  last_ingest.kind \in {"running", "interrupted"} =>
    LET r == last_ingest.basic_info.id
        before == last_ingest.before
        after == SaveReleaseToDb(before, last_ingest.basic_info,
                                 last_ingest.has_notes, last_ingest.notes,
                                 clock).db
    IN /\ ReleaseView(db, r) \in {ReleaseView(before, r), ReleaseView(after, r)}
       /\ Returned =>
            PageRowsOf(last_page.rows, r)
              \in {PageRowsOf(PageOn(before, last_page.request).rows, r),
                   PageRowsOf(PageOn(after, last_page.request).rows, r)}

\* What does hold: the store is what the steps done so far leave, each step
\* as a whole.
StepsDoneAreWhole ==
  last_ingest.kind \in {"running", "interrupted"} =>
    LET b == last_ingest.basic_info
        s1 == SaveReleaseToReleaseDb(last_ingest.before, b, clock).db
        s2 == SaveArtistToArtistDb(s1, b)
        s3 == SaveStyleGenreLabelToDbs(s2, b)
    IN db = CASE last_ingest.done = 1 -> s1
              [] last_ingest.done = 2 -> s2
              [] last_ingest.done = 3 -> s3

(***************************************************************************)
(* Properties of the life of the store.                                    *)
(***************************************************************************)
\* The columns of a releases row that come from the payload.
PayloadColumns(row) ==
  [k \in (DOMAIN row) \ {"date_added"} |-> row[k]]

\* C19: the releases table holds one row for each release id ingested into
\* the store, with the fields of the last payload ingested for the id; no
\* step removes a row but a wipe of the whole store, neither an ingestion of
\* other releases nor a resolve pass.
C19_ReleaseUpsertNeverDeleted ==
  [][/\ DOMAIN db'.releases = DOMAIN latest'
     /\ \A r \in DOMAIN latest' :
          PayloadColumns(db'.releases[r])
            = PayloadColumns(ReleaseRow(latest'[r], r, 0))
     /\ (\E r \in DOMAIN db.releases : r \notin DOMAIN db'.releases) =>
          /\ db' = NoFile
          /\ n_ingests' = n_ingests
          /\ sort_pass' = sort_pass]_vars

\* Release 2 was ingested, a resolve pass ran, and release 2 was ingested
\* again with another payload: its row holds the fields of the second one.
C19_Witness ==
  /\ n_ingests = 2
  /\ PassReturned
  /\ DOMAIN db.releases = {2}
  /\ db.releases[2].title = "one"
  /\ db.releases[2].format = "LP"
  /\ latest[2] = WithId(BodyBare, 2)
  /\ db.artists[2].sort_name # NULL

\* A sync that brought release 2 and not release 1 again: release 1 is in
\* the store as before.
SyncKeepsOtherReleases ==
  /\ n_ingests = 2
  /\ DOMAIN db.releases = {1, 2}
  /\ last_ingest.basic_info.id = 2

(***************************************************************************)
(* Properties of the ORDER BY clause.                                      *)
(***************************************************************************)
\* cs is "custom_" followed by one or more digits.
IsCustomColumn(cs) ==
  /\ Len(cs) > Len(Chars["custom_"])
  /\ StartsWithAt(cs, 1, Chars["custom_"])
  /\ \A i \in (Len(Chars["custom_"]) + 1)..Len(cs) : cs[i] \in Range(Digits)

\* The column the whitelist allows for sort_by.
WhitelistColumn(sort_by) ==
  CASE sort_by \in {"title", "year", "date_added", "id"} -> sort_by
    [] sort_by = "artist" -> "COALESCE(a.sort_name, a.name)"
    [] IsCustomColumn(Chars[sort_by]) -> sort_by
    [] OTHER -> "date_added"

\* C20: the ORDER BY of the main query of a get_page call is on the column
\* sort_by names when that is title, year, date_added or id, on the artist
\* sort expression for artist, on sort_by itself when it is custom_ followed
\* by one or more digits, and on date_added for every other sort_by; the
\* direction is the requested one.
C20_SortWhitelist ==
  (last_page.kind = "page" /\ "query" \in DOMAIN last_page) =>
    /\ last_page.query.order_by.column
         = WhitelistColumn(last_page.request.sort_by)
    /\ last_page.query.order_by.dir
         = (IF last_page.request.desc THEN "DESC" ELSE "ASC")

\* The same for the sort_by values in which "custom_" occurs at most once.
SortWhitelistButRepeatedPrefix ==
  ( /\ last_page.kind = "page"
    /\ "query" \in DOMAIN last_page
    /\ ~Contains(SubSeq(Chars[last_page.request.sort_by], 2,
                        Len(Chars[last_page.request.sort_by])),
                 Chars["custom_"]) ) =>
    /\ last_page.query.order_by.column
         = WhitelistColumn(last_page.request.sort_by)
    /\ last_page.query.order_by.dir
         = (IF last_page.request.desc THEN "DESC" ELSE "ASC")

\* A call with sort_by "custom_", descending, on a store of two releases: it
\* returned, ordered by date_added.
SortWhitelistButRepeatedPrefixWitness ==
  /\ Returned
  /\ Cardinality(DOMAIN db.releases) = 2
  /\ last_page.request.sort_by = "custom_"
  /\ last_page.request.desc
  /\ last_page.query.order_by.column = "date_added"
  /\ last_page.query.order_by.dir = "DESC"

(***************************************************************************)
(* Properties of the composer on requests it cannot serve.                 *)
(***************************************************************************)
\* The custom field sort_by names, as custom_<n>: {n}, else {}.
CustomFieldOf(sort_by) ==
  {f \in 1..9 : sort_by = "custom_" \o ToString(f)}

\* sort_by is no column of the whitelist and no custom_<n>.
UnknownSortColumn(sort_by) ==
  /\ sort_by \notin {"title", "year", "date_added", "id", "artist"}
  /\ ~IsCustomColumn(Chars[sort_by])

\* The request refers to a custom field that has no table in the store, as
\* sort_by custom_<n> or as a key of custom_field_filters.
RefersToMissingField(d, req) ==
  \/ \E f \in CustomFieldOf(req.sort_by) : f \notin DOMAIN d.custom
  \/ /\ Truthy(req, "custom_field_filters")
     /\ \E i \in 1..Len(req.custom_field_filters) :
          req.custom_field_filters[i].field_id \notin DOMAIN d.custom

\* C21: a get_page call whose sort_by names an unknown column, or which
\* refers to a custom field that has no table in the store (as sort_by
\* custom_<n> or as a key of custom_field_filters), completes without error
\* and returns rows and a total.
C21_ErrorsNormalized ==
  ( /\ last_page.kind = "page"
    /\ \/ UnknownSortColumn(last_page.request.sort_by)
       \/ RefersToMissingField(db, last_page.request) ) =>
    /\ ~last_page.raised
    /\ {"rows", "total_rows"} \subseteq DOMAIN last_page

\* What holds: a call whose sort_by is outside the whitelist, does not
\* start with "custom_", and which filters by no custom field returns rows
\* and a total, ordered by date_added.
UnknownSortColumnFallsBack ==
  ( /\ last_page.kind = "page"
    /\ UnknownSortColumn(last_page.request.sort_by)
    /\ ~StartsWithAt(Chars[last_page.request.sort_by], 1, Chars["custom_"])
    /\ ~Truthy(last_page.request, "custom_field_filters") ) =>
    /\ Returned
    /\ last_page.query.order_by.column = "date_added"

\* A call with sort_by "bogus" on a store of two releases returned both.
UnknownSortColumnFallsBackWitness ==
  /\ Returned
  /\ last_page.request.sort_by = "bogus"
  /\ last_page.request.page_size = 0
  /\ Len(last_page.rows) = 2

\* What holds of a missing custom field: the call raises, and returns
\* neither rows nor a total.
MissingCustomFieldRaises ==
  ( /\ last_page.kind = "page"
    /\ RefersToMissingField(db, last_page.request)
    /\ \/ CustomFieldOf(last_page.request.sort_by) # {}
       \/ \E i \in 1..Len(Get(last_page.request, "custom_field_filters", <<>>)) :
            /\ last_page.request.custom_field_filters[i].field_id
                 \notin DOMAIN db.custom
            /\ Len(last_page.request.custom_field_filters[i].values) > 0 ) =>
    last_page.raised

(***************************************************************************)
(* Properties of the custom-field joins.                                   *)
(***************************************************************************)
\* The LEFT JOIN of the table of custom field f under the alias cf<f>.
CustomJoin(f) == J("custom_field_" \o ToString(f), "cf" \o ToString(f))

\* The custom fields whose table the query joins under its alias.
JoinedFields(query) == {f \in 1..9 : CustomJoin(f) \in Range(query.joins)}

\* The queries a get_page call built: the count query, and the main query
\* when the call got that far.
QueriesOf(page) ==
  {page.count_query} \cup (IF "query" \in DOMAIN page THEN {page.query} ELSE {})

\* C22: whenever a get_page call references custom field f in
\* custom_field_filters, the count query and the main query LEFT JOIN the
\* table of f under the alias cf<f>, also when the table was created by an
\* ingestion earlier in the session: the field ids the composer joins
\* contain every custom-field table of the store.
C22_CustomJoins ==
  last_page.kind = "page" =>
    \A q \in QueriesOf(last_page) :
      /\ DOMAIN db.custom \subseteq JoinedFields(q)
      /\ Truthy(last_page.request, "custom_field_filters") =>
           \A i \in 1..Len(last_page.request.custom_field_filters) :
             LET f == last_page.request.custom_field_filters[i].field_id IN
             f \in DOMAIN db.custom => f \in JoinedFields(q)

\* What holds: the count query and the main query join the custom fields
\* whose table was in the database file when the program started, and no
\* other.
CustomJoinsOfLoadedFields ==
  last_page.kind = "page" =>
    \A q \in QueriesOf(last_page) : JoinedFields(q) = custom_ids

\* A call filtering by the custom fields 1 and 2, both loaded at the start
\* of the program, returned with both tables joined in both queries.
CustomJoinsOfLoadedFieldsWitness ==
  /\ Returned
  /\ Truthy(last_page.request, "custom_field_filters")
  /\ Len(last_page.request.custom_field_filters) = 2
  /\ custom_ids = {1, 2}
  /\ JoinedFields(last_page.count_query) = {1, 2}
  /\ JoinedFields(last_page.query) = {1, 2}
  /\ Len(last_page.rows) >= 1

(***************************************************************************)
(* Properties of re-ingestion.                                             *)
(***************************************************************************)
\* What the junction tables say of release r: its artist ids, its genre and
\* style names, its labels with their catalogue numbers.
StoredJoins(d, r) ==
  [artists |-> {row.artist_id : row \in Range(RowsOf(d.release_artists, r))},
   genres |-> {LookupName(d.genres, row.genre_id) :
                 row \in Range(RowsOf(d.release_genres, r))},
   styles |-> {LookupName(d.styles, row.style_id) :
                 row \in Range(RowsOf(d.release_styles, r))},
   labels |-> {<<LookupName(d.labels, row.label_id), row.catno>> :
                 row \in Range(RowsOf(d.release_labels, r))}]

\* The same, as the payload says it.
PayloadJoins(basic_info) ==
  [artists |-> {a.id : a \in Range(ArtistsOf(basic_info))},
   genres |-> Range(Get(basic_info, "genres", <<>>)),
   styles |-> Range(Get(basic_info, "styles", <<>>)),
   labels |-> {<<Get(l, "name", NULL), Get(l, "catno", NULL)>> :
                 l \in Range(Get(basic_info, "labels", <<>>))}]

\* The rows of release r in the four junction tables.
JoinRowsOf(d, r) ==
  <<RowsOf(d.release_artists, r), RowsOf(d.release_genres, r),
    RowsOf(d.release_styles, r), RowsOf(d.release_labels, r)>>

\* This step is a completed save_release_to_db call for a release that is
\* in the store.
ReingestStep ==
  /\ IngestStep
  /\ last_ingest'.basic_info.id \in DOMAIN db.releases

\* C24: re-ingesting release R leaves, as the junction rows of R, exactly
\* those of the new payload (the rows of the earlier payload that the new
\* one lacks are gone), and leaves the junction rows and the releases row of
\* every other release as they were.
C24_ReingestReplacesJoins ==
  [][ReingestStep =>
       LET b == last_ingest'.basic_info IN
       /\ StoredJoins(db', b.id) = PayloadJoins(b)
       /\ ListsStored(db', b)
       /\ DOMAIN db'.releases = DOMAIN db.releases
       /\ \A r \in (1..3) \ {b.id} :
            /\ JoinRowsOf(db', r) = JoinRowsOf(db, r)
            /\ r \in DOMAIN db.releases => db'.releases[r] = db.releases[r]]_vars

\* Release 2 came with an artist, a genre and a label, release 1 was
\* ingested, then release 2 came again without any: its junction rows are
\* gone, the genre is still in the lookup table, release 1 has its rows.
C24_Witness ==
  /\ last_ingest.kind = "ingest"
  /\ ~last_ingest.raised
  /\ last_ingest.basic_info = WithId(BodyBare, 2)
  /\ DOMAIN db.releases = {1, 2}
  /\ db.releases[2].title = "one"
  /\ JoinRowsOf(db, 2) = <<<<>>, <<>>, <<>>, <<>>>>
  /\ "XL" \in Range(db.labels)
  /\ Len(RowsOf(db.release_artists, 1)) = 2
  /\ Len(RowsOf(db.release_labels, 1)) = 2

(***************************************************************************)
(* Properties of the custom-field values.                                  *)
(***************************************************************************)
\* t is s without its leading and trailing whitespace.
IsTrimOf(t, s) ==
  LET ct == Chars[t]
      cs == Chars[s]
  IN /\ ct # <<>> => ~IsSpace(ct[1]) /\ ~IsSpace(ct[Len(ct)])
     /\ \E k \in 0..Len(cs) :
          /\ k + Len(ct) <= Len(cs)
          /\ SubSeq(cs, k + 1, k + Len(ct)) = ct
          /\ \A i \in (1..k) \cup ((k + Len(ct) + 1)..Len(cs)) : IsSpace(cs[i])

\* The notes of a call, none when it was given None.
NotesOf(call) == IF call.has_notes THEN call.notes ELSE <<>>

\* The value of the last note of the list for field f.
LastNoteFor(notes, f) ==
  LET at == {i \in 1..Len(notes) : notes[i].field_id = f}
  IN Get(notes[CHOOSE i \in at : \A j \in at : j <= i], "value", "")

\* C25: custom-field values are single-valued, last write wins: a completed
\* ingestion of release R leaves, in the table of every field its notes
\* name, the one row of R with the whitespace-trimmed value of the last note
\* for the field; the row of R in the table of a field its notes do not
\* name, and the rows of the other releases, stay as they were.
C25_CustomValueLastWriteWins ==
  [][IngestStep =>
       LET R == last_ingest'.basic_info.id
           notes == NotesOf(last_ingest')
           named == {notes[i].field_id : i \in 1..Len(notes)}
       IN /\ DOMAIN db'.custom = (DOMAIN db.custom) \cup named
          /\ \A f \in named :
               /\ R \in DOMAIN db'.custom[f]
               /\ IsTrimOf(db'.custom[f][R], LastNoteFor(notes, f))
               /\ \A r \in (DOMAIN db'.custom[f]) \ {R} :
                    /\ f \in DOMAIN db.custom
                    /\ r \in DOMAIN db.custom[f]
                    /\ db'.custom[f][r] = db.custom[f][r]
          /\ \A f \in (DOMAIN db.custom) \ named :
               db'.custom[f] = db.custom[f]]_vars

\* Release 1 came with the notes " " for field 1 and "y" for field 2, then
\* again with the note " x " for field 1 alone: field 1 holds "x" for it,
\* field 2 still "y".
C25_Witness ==
  /\ n_ingests = 2
  /\ last_ingest.kind = "ingest"
  /\ ~last_ingest.raised
  /\ Get(last_ingest.basic_info, "id", NULLID) = 1
  /\ NotesOf(last_ingest) = <<[field_id |-> 1, value |-> " x "]>>
  /\ DOMAIN db.custom = {1, 2}
  /\ db.custom[1] = (1 :> "x")
  /\ db.custom[2] = (1 :> "y")

(***************************************************************************)
(* Properties of the display strings.                                      *)
(***************************************************************************)
\* The distinct names joined to release r: of its artists, labels, genres
\* and styles.
NamesJoined(d, r) ==
  [artist_name |->
     NonNull({d.artists[row.artist_id].name :
                row \in {x \in Range(RowsOf(d.release_artists, r)) :
                           x.artist_id \in DOMAIN d.artists}}),
   label_name |->
     NonNull({LookupName(d.labels, row.label_id) :
                row \in Range(RowsOf(d.release_labels, r))}),
   genres |->
     NonNull({LookupName(d.genres, row.genre_id) :
                row \in Range(RowsOf(d.release_genres, r))}),
   style_name |->
     NonNull({LookupName(d.styles, row.style_id) :
                row \in Range(RowsOf(d.release_styles, r))})]

\* The names the row of a page shows, each distinct name once.
NamesShown(row) ==
  [artist_name |-> row.artist_name, label_name |-> row.label_name,
   genres |-> row.genres, style_name |-> row.style_name]

\* C26: for every release a get_page call returns, under every combination
\* of filters (an artist filter or a search text included), artist_name,
\* label_name, genres and style_name each hold every distinct name joined
\* to the release, once.
C26_DisplayStringsComplete ==
  Returned =>
    \A i \in 1..Len(last_page.rows) :
      NamesShown(last_page.rows[i]) = NamesJoined(db, last_page.rows[i].id)

\* What holds: the same for the calls without a search text and without an
\* artist filter.
DisplayStringsCompleteButSearchOrArtists ==
  ( /\ Returned
    /\ Supplied(last_page.request) \cap {"search_query", "artist_ids"} = {} ) =>
    \A i \in 1..Len(last_page.rows) :
      NamesShown(last_page.rows[i]) = NamesJoined(db, last_page.rows[i].id)

\* A call with a genre filter and a style filter returned release 1 with its
\* two artists, one label (joined by two rows), two genres and one style.
DisplayStringsCompleteButSearchOrArtistsWitness ==
  /\ Returned
  /\ {"genre_ids", "style_ids"} \subseteq Supplied(last_page.request)
  /\ \E i \in 1..Len(last_page.rows) :
       /\ last_page.rows[i].id = 1
       /\ last_page.rows[i].artist_name = {"Radiohead", "The Beatles"}
       /\ last_page.rows[i].label_name = {"Warp"}
       /\ last_page.rows[i].genres = {"Rock", "Jazz"}
       /\ last_page.rows[i].style_name = {"Dub"}
  /\ Len(RowsOf(db.release_labels, 1)) = 2

\* What an artist filter or a search text does: the strings hold only names
\* joined to the release, possibly not all of them.
DisplayStringsOfJoinedNames ==
  Returned =>
    \A i \in 1..Len(last_page.rows) :
      \A k \in {"artist_name", "label_name", "genres", "style_name"} :
        NamesShown(last_page.rows[i])[k]
          \subseteq NamesJoined(db, last_page.rows[i].id)[k]

(***************************************************************************)
(* Properties of the parameters of the WHERE clause.                       *)
(***************************************************************************)
\* The values of filters[i..] other than [Blanks], in order.
RECURSIVE NonBlankValues(_, _)
NonBlankValues(filters, i) ==
  IF i > Len(filters) THEN <<>>
  ELSE SelectSeq(filters[i].values, LAMBDA v : v # BLANKS_LABEL)
         \o NonBlankValues(filters, i + 1)

\* The parameters in the order of the groups: the search pattern six times,
\* the artist, genre, style and label ids, the formats, the values of the
\* custom-field filters.
ParamsInGroupOrder(req) ==
  (IF req.search_query # ""
   THEN [i \in 1..6 |-> <<"%", req.search_query, "%">>] ELSE <<>>)
    \o Get(req, "artist_ids", <<>>) \o Get(req, "genre_ids", <<>>)
    \o Get(req, "style_ids", <<>>) \o Get(req, "label_ids", <<>>)
    \o Get(req, "formats", <<>>)
    \o NonBlankValues(Get(req, "custom_field_filters", <<>>), 1)

\* The parameters bound to the conditions of the custom-field filters: the
\* last ones of the list, as many as those conditions have placeholders.
CustomParams(page) ==
  LET w == page.count_query.where_sql
      n == Placeholders(SelectSeq(w, LAMBDA c : c.kind = "custom"), 1)
  IN SubSeq(page.count_params, Len(page.count_params) - n + 1,
            Len(page.count_params))

\* C30: for every combination of filter inputs the number of "?" in the
\* WHERE clause equals the length of the parameter list, the parameters are
\* in the order search (six copies of the pattern), artist ids, genre ids,
\* style ids, label ids, formats, non-blank values of each custom-field
\* filter, and [Blanks] is never bound.
C30_PlaceholdersMatchParams ==
  last_page.kind = "page" =>
    /\ Placeholders(last_page.count_query.where_sql, 1)
         = Len(last_page.count_params)
    /\ last_page.count_params = ParamsInGroupOrder(last_page.request)
    /\ BLANKS_LABEL \notin Range(CustomParams(last_page))

\* A call that supplies a search text and every filter group, one custom
\* filter listing [Blanks] and a value: eight conditions, fifteen parameters.
C30_Witness ==
  /\ Returned
  /\ Supplied(last_page.request) = FilterKeys \cup {"search_query"}
  /\ Len(last_page.count_query.where_sql) = 8
  /\ Len(last_page.count_params) = 15
  /\ \E i \in 1..Len(last_page.request.custom_field_filters) :
       BLANKS_LABEL \in Range(last_page.request.custom_field_filters[i].values)

(***************************************************************************)
(* C27: a sort name is persisted once it is resolved.                      *)
(***************************************************************************)
\* The artists whose sort_name is NULL.
NullSortNames(d) == {a \in DOMAIN d.artists : d.artists[a].sort_name = NULL}

\* The ids of the rows a running pass works through.
IdsToCheck(pass) ==
  {pass.artists_to_check[i].id : i \in 1..Len(pass.artists_to_check)}

\* The step is an add_releases_to_db item.
IngestionStep == n_ingests' # n_ingests

\* The step belongs to fetch_artist_sort_names.
ResolveStep == events' # events

\* C27: a resolve pass selects exactly the artists whose sort_name is NULL
\* when it starts and writes only rows among them; no ingestion and no
\* resolve step changes a sort_name that is not NULL; when a pass has
\* returned no artist is left with a NULL sort_name, so that a second pass
\* run directly after it finds nothing to look up or to write.
C27_SortNamePersisted ==
  [][/\ (IngestionStep \/ ResolveStep) =>
          \A a \in DOMAIN db.artists :
            db.artists[a].sort_name # NULL =>
              /\ a \in DOMAIN db'.artists
              /\ db'.artists[a].sort_name = db.artists[a].sort_name
     /\ (ResolveStep /\ sort_pass = NoCall) =>
          IdsToCheck(sort_pass') = NullSortNames(db)
     /\ ResolveStep =>
          \A a \in DOMAIN db.artists :
            db'.artists[a] # db.artists[a] =>
              /\ a \in IdsToCheck(sort_pass)
              /\ db.artists[a].sort_name = NULL
     /\ (ResolveStep /\ sort_pass' = NoCall) => NullSortNames(db') = {}
    ]_vars

\* Two syncs: the first artist was resolved by the first pass, the second
\* pass had one artist to check, and both artists now have a sort name.
C27_Witness ==
  /\ PassReturned
  /\ n_ingests = 2
  /\ events[1].total = 1
  /\ DOMAIN outcome = {1, 2}
  /\ DOMAIN db.artists = {1, 2}
  /\ NullSortNames(db) = {}

(***************************************************************************)
(* C23: the re-entrancy guard of start_refresh.                            *)
(***************************************************************************)
\* The step is a start_refresh call.
RefreshCall == refresh_calls' # refresh_calls

\* What a sync works on and with.
SyncState ==
  <<db, custom_ids, n_ingests, last_ingest, latest, sort_pass, outcome,
    lookups, events, syncs, refresh_flag, pat, client, user, last_sync>>

\* C23: at most one sync is in flight at any time; a start_refresh call
\* made while a sync is running fetches, ingests and resolves nothing and
\* leaves the running sync as it is; a sync starts only in a start_refresh
\* call made while none is running, so that no call is queued.
C23_ReentrancyGuard ==
  [][/\ Len(syncs') <= 1
     /\ (RefreshCall /\ syncs # <<>>) => UNCHANGED SyncState
     /\ Len(syncs') > Len(syncs) => (RefreshCall /\ syncs = <<>>)
    ]_vars

\* The second start_refresh call came while the first sync was running (no
\* sync has ended yet) and was ignored; the first sync went on to store
\* what it had fetched.
C23_Witness ==
  /\ refresh_calls = <<"started", "ignored">>
  /\ last_sync = NoCall
  /\ Len(syncs) = 1
  /\ syncs[1].stage = "resolve"
  /\ DOMAIN db.releases # {}

(***************************************************************************)
(* C28: the release of the guard when a sync ends.                         *)
(***************************************************************************)
\* C28: whenever no sync is in flight (none was started yet, or every
\* started one has ended, by completing or by an exception) refresh_flag is
\* false, so that the next start_refresh call starts a sync.
C28_GuardReleased == (syncs = <<>>) => (refresh_flag = FALSE)

\* A sync that runs to its end releases the guard.
CompletedSyncReleasesGuard ==
  [][(Len(syncs') < Len(syncs) /\ last_sync'.kind = "completed") =>
       refresh_flag' = FALSE]_vars

\* A sync ended by an exception leaves the guard set, and the guard set
\* with no sync in flight stays so: every later call is ignored.
RaisedSyncKeepsGuard ==
  [][/\ ((Len(syncs') < Len(syncs) \/ RefreshCall)
           /\ last_sync' # last_sync /\ last_sync'.kind = "raised") =>
          refresh_flag' = TRUE
     /\ (syncs = <<>> /\ refresh_flag) => (syncs' = <<>> /\ refresh_flag')
    ]_vars

\* A sync was rejected for the missing token, and the call after it was
\* ignored.
RaisedSyncKeepsGuardWitness ==
  /\ last_sync = Raised("connect", 0)
  /\ pat = NULL
  /\ refresh_calls = <<"started", "ignored">>
  /\ syncs = <<>>

(***************************************************************************)
(* C29: a failed bulk fetch leaves the store unchanged.                    *)
(***************************************************************************)
\* The stages of fetch_collection before add_releases_to_db.
FetchStages == {"connect", "enumerate"}

\* C29: while fetch_collection connects and enumerates the remote items,
\* and when it raises there, the store is what it was when the call began:
\* no row of any table has been inserted, changed or deleted.
C29_FailedFetchLeavesStore ==
  [][\A i \in DOMAIN syncs :
       syncs[i].stage \in FetchStages =>
         /\ db = syncs[i].before
         /\ db' = syncs[i].before]_vars

\* The enumeration raised after one item, in a sync that began with
\* releases in the store.
C29_Witness ==
  /\ last_sync = Raised("enumerate", 1)
  /\ refresh_calls = <<"started", "started">>
  /\ syncs = <<>>
  /\ DOMAIN db.releases # {}

====
